---- MODULE Spec2Model ----
(***************************************************************************)
(* GeoRhythm: player kinematics (Cube / Ship / Ball strategies), the AABB  *)
(* collision primitive, the collision classifier and the Player tick       *)
(* driver.                                                                 *)
(*                                                                         *)
(* Numbers are IEEE doubles in the source.  The model uses fixed point:    *)
(*   time      centiseconds                (deltaTime 0.01 s  = 1)         *)
(*   velocity  tenths of a pixel / second  (800 px/s          = 8000)      *)
(*   position  1/10000 pixel               (1 px              = PX)        *)
(*   rotation  millidegrees                (360 deg           = 360000)    *)
(* With these units every product the claims depend on (gravity * dt,      *)
(* velocity * dt, speed * musicTime, hitbox scaling) is an exact integer;  *)
(* only the ship tilt easing and the ball roll are rounded to the nearest  *)
(* millidegree.                                                            *)
(***************************************************************************)
EXTENDS Integers, Sequences, FiniteSets, TLC

(***************************************************************************)
(* Bounds of the exploration                                               *)
(***************************************************************************)
MaxTicks == 2
MaxCalls == 2
\* boxes handed to getAABBCollision have corners within 2 * MaxCoord
MaxCoord == 3

(***************************************************************************)
(* Units                                                                   *)
(***************************************************************************)
PX == 100 * 100
VEL == 2 * 5
DEG == 10 * 100

(***************************************************************************)
(* core/physics/constants.ts and createDefaultPhysicsConfig                *)
(***************************************************************************)
GRAVITY == 2600
JUMP_FORCE == 800
TERMINAL_VELOCITY == 1200
COYOTE_TIME == 8
JUMP_BUFFER == 10
SHIP_GRAVITY_PERCENT == 40
SHIP_THRUST_FORCE == 600
SHIP_TERMINAL_PERCENT == 80
CUBE_ROTATION_SPEED == 360
UNIT_SIZE == 40
DEFAULT_GROUND_Y == 12
SIZE_PLAYER == 40
SIZE_BLOCK == 40
HITBOX_PLAYER_CUBE == 90
HITBOX_PLAYER_SHIP == 85
HITBOX_SPIKE == 50
HITBOX_ORB == 75
HITBOX_BLOCK == 100
LAYER_NONE == 0
LAYER_SOLID == 1
LAYER_HAZARD == 2
LAYER_INTERACTIVE == 4
LAYER_PORTAL == 8
LAYER_TRIGGER == 16

\* SPEEDS, in position units per centisecond (311.58 px/s = 31158)
SPEEDS ==
  [slow |-> 25116, normal |-> 31158, fast |-> 38742,
   faster |-> 46800, superFast |-> 57600]

\* jump forces of pads (yellow, pink) and orbs (yellow, blue), px/s
PadForces == {900, 1100}
OrbForces == {850, 750}

PhysicsConfig ==
  [gravity |-> GRAVITY, jumpForce |-> JUMP_FORCE,
   terminalVelocity |-> TERMINAL_VELOCITY,
   coyoteTime |-> COYOTE_TIME, jumpBuffer |-> JUMP_BUFFER]

Modes == {"cube", "ship", "ball"}

(***************************************************************************)
(* Arithmetic helpers                                                      *)
(***************************************************************************)
Abs(n) == IF n < 0 THEN -n ELSE n

Max(a, b) == IF a >= b THEN a ELSE b

Min(a, b) == IF a <= b THEN a ELSE b

\* function clamp(value, min, max)
clamp(value, lo, hi) == Max(lo, Min(hi, value))

\* Math.round(n / d) for d > 0: nearest integer, halves towards +infinity
MathRound(n, d) == (2 * n + d) \div (2 * d)

\* the JavaScript % operator: the remainder takes the sign of the dividend
JsRem(a, b) == IF a >= 0 THEN a % b ELSE -((-a) % b)

\* r % 360 alone: the sign of r survives
NormalizeRotation_remainderOnly(r) == JsRem(r, 360 * DEG)

\* ((r % 360) + 360) % 360 on millidegrees
NormalizeRotation(r) == JsRem(JsRem(r, 360 * DEG) + 360 * DEG, 360 * DEG)

(***************************************************************************)
(* AABB primitive                                                          *)
(***************************************************************************)
createAABBFromCenter(centerX, centerY, width, height) ==
  [x |-> centerX - width \div 2, y |-> centerY - height \div 2,
   width |-> width, height |-> height]

\* scale is a percentage (HITBOXES.* times 100)
scaleAABB(box, scale) ==
  LET centerX == box.x + box.width \div 2
      centerY == box.y + box.height \div 2
      newWidth == (box.width * scale) \div 100
      newHeight == (box.height * scale) \div 100
  IN  [x |-> centerX - newWidth \div 2, y |-> centerY - newHeight \div 2,
       width |-> newWidth, height |-> newHeight]

checkAABBOverlap(a, b) ==
  /\ a.x < b.x + b.width
  /\ a.x + a.width > b.x
  /\ a.y < b.y + b.height
  /\ a.y + a.height > b.y

\* a variant that resolves equal penetration horizontally
getAABBCollision_tieHorizontal(a, b) ==
  LET dx == (a.x + a.width \div 2) - (b.x + b.width \div 2)
      dy == (a.y + a.height \div 2) - (b.y + b.height \div 2)
      overlapX == a.width \div 2 + b.width \div 2 - Abs(dx)
      overlapY == a.height \div 2 + b.height \div 2 - Abs(dy)
      normalX == IF dx > 0 THEN 1 ELSE -1
      normalY == IF dy > 0 THEN 1 ELSE -1
  IN  IF overlapX <= 0 \/ overlapY <= 0
      THEN [colliding |-> FALSE, overlapX |-> 0, overlapY |-> 0,
            normal |-> [x |-> 0, y |-> 0]]
      ELSE IF overlapX <= overlapY
      THEN [colliding |-> TRUE, overlapX |-> overlapX * normalX,
            overlapY |-> 0, normal |-> [x |-> normalX, y |-> 0]]
      ELSE [colliding |-> TRUE, overlapX |-> 0,
            overlapY |-> overlapY * normalY,
            normal |-> [x |-> 0, y |-> normalY]]

getAABBCollision(a, b) ==
  LET aCenterX == a.x + a.width \div 2
      aCenterY == a.y + a.height \div 2
      bCenterX == b.x + b.width \div 2
      bCenterY == b.y + b.height \div 2
      dx == aCenterX - bCenterX
      dy == aCenterY - bCenterY
      overlapX == a.width \div 2 + b.width \div 2 - Abs(dx)
      overlapY == a.height \div 2 + b.height \div 2 - Abs(dy)
      normalX == IF dx > 0 THEN 1 ELSE -1
      normalY == IF dy > 0 THEN 1 ELSE -1
  IN  IF overlapX <= 0 \/ overlapY <= 0
      THEN [colliding |-> FALSE, overlapX |-> 0, overlapY |-> 0,
            normal |-> [x |-> 0, y |-> 0]]
      ELSE IF overlapX < overlapY
      THEN [colliding |-> TRUE, overlapX |-> overlapX * normalX,
            overlapY |-> 0, normal |-> [x |-> normalX, y |-> 0]]
      ELSE [colliding |-> TRUE, overlapX |-> 0,
            overlapY |-> overlapY * normalY,
            normal |-> [x |-> 0, y |-> normalY]]

(***************************************************************************)
(* Collision classifier                                                    *)
(***************************************************************************)
\* (layer & bit) !== 0 for a power-of-two bit
HasLayer(layer, bit) == (layer \div bit) % 2 = 1

getHitboxScale(type) ==
  CASE type \in {"spike", "spikeInverted"} -> HITBOX_SPIKE
    [] type \in {"orbYellow", "orbBlue"} -> HITBOX_ORB
    [] type = "block" -> HITBOX_BLOCK
    [] OTHER -> 100

getCollisionLayer(type) ==
  CASE type = "block" -> LAYER_SOLID
    [] type \in {"spike", "spikeInverted"} -> LAYER_HAZARD
    [] type \in {"padYellow", "padPink", "orbYellow", "orbBlue"}
         -> LAYER_INTERACTIVE
    [] type \in {"portalGravity", "portalMode", "portalSpeed"}
         -> LAYER_PORTAL
    [] type = "checkpoint" -> LAYER_TRIGGER
    [] OTHER -> LAYER_NONE

getObjectHitbox(obj) ==
  scaleAABB(createAABBFromCenter(obj.x, obj.y, obj.width, obj.height),
            getHitboxScale(obj.type))

getPlayerHitbox(x, y, width, height, isCube) ==
  scaleAABB(createAABBFromCenter(x, y, width, height),
            IF isCube THEN HITBOX_PLAYER_CUBE ELSE HITBOX_PLAYER_SHIP)

\* checkPlayerObjectCollision returns null for these objects
NoCollisionEvent(playerHitbox, obj) ==
  \/ ~obj.active
  \/ obj.collisionLayer = LAYER_NONE
  \/ ~checkAABBOverlap(playerHitbox, getObjectHitbox(obj))

checkPlayerObjectCollision(playerHitbox, obj) ==
  [type |-> obj.type,
   collision |-> getAABBCollision(playerHitbox, getObjectHitbox(obj)),
   isHazard |-> HasLayer(obj.collisionLayer, LAYER_HAZARD),
   isSolid |-> HasLayer(obj.collisionLayer, LAYER_SOLID),
   isInteractive |-> HasLayer(obj.collisionLayer, LAYER_INTERACTIVE)]

RECURSIVE checkPlayerCollisionsFrom(_, _, _)
checkPlayerCollisionsFrom(playerHitbox, objects, i) ==
  IF i > Len(objects) THEN <<>>
  ELSE IF NoCollisionEvent(playerHitbox, objects[i])
       THEN checkPlayerCollisionsFrom(playerHitbox, objects, i + 1)
       ELSE <<checkPlayerObjectCollision(playerHitbox, objects[i])>>
            \o checkPlayerCollisionsFrom(playerHitbox, objects, i + 1)

checkPlayerCollisions(playerHitbox, objects) ==
  checkPlayerCollisionsFrom(playerHitbox, objects, 1)

\* tolerance defaults to 2 px
GROUND_TOLERANCE == 2

checkGrounded(playerHitbox, objects) ==
  LET groundCheckBox ==
        [x |-> playerHitbox.x + 2 * PX,
         y |-> playerHitbox.y + playerHitbox.height,
         width |-> playerHitbox.width - 4 * PX,
         height |-> GROUND_TOLERANCE * PX]
      groundY == DEFAULT_GROUND_Y * UNIT_SIZE * PX
      playerBottom == playerHitbox.y + playerHitbox.height
  IN  \/ \E i \in 1..Len(objects) :
           /\ objects[i].active
           /\ HasLayer(objects[i].collisionLayer, LAYER_SOLID)
           /\ checkAABBOverlap(groundCheckBox, getObjectHitbox(objects[i]))
      \/ /\ playerBottom >= groundY - GROUND_TOLERANCE * PX
         /\ playerBottom <= groundY + GROUND_TOLERANCE * PX

(***************************************************************************)
(* PhysicsState and InputState                                             *)
(***************************************************************************)
createDefaultPhysicsState(x, y, isGrounded, mode, speed, gravityInverted) ==
  [position |-> [x |-> x, y |-> y],
   velocity |-> [x |-> 0, y |-> 0],
   isGrounded |-> isGrounded,
   gravityInverted |-> gravityInverted,
   rotation |-> 0,
   angularVelocity |-> 0,
   coyoteTimeRemaining |-> 0,
   jumpBuffered |-> FALSE,
   jumpBufferTimeRemaining |-> 0,
   isDead |-> FALSE,
   mode |-> mode,
   speed |-> speed]

\* the InputState values a tick can be given
InputStates ==
  {[jumpPressed |-> FALSE, jumpHeld |-> FALSE],
   [jumpPressed |-> TRUE, jumpHeld |-> TRUE],
   [jumpPressed |-> FALSE, jumpHeld |-> TRUE]}

\* velocity gained in deltaTime under an acceleration given in px/s^2
Accelerate(accel, deltaTime) == (accel * deltaTime * VEL) \div 100

\* distance covered in deltaTime at a velocity given in velocity units
Travel(velocity, deltaTime) == (velocity * deltaTime * PX) \div (VEL * 100)

(***************************************************************************)
(* CubeMode                                                                *)
(***************************************************************************)
CubeMode_executeJump(state, config) ==
  [state EXCEPT
     !.velocity.y = config.jumpForce * VEL
                      * (IF state.gravityInverted THEN 1 ELSE -1),
     !.isGrounded = FALSE,
     !.coyoteTimeRemaining = 0,
     !.angularVelocity = IF state.gravityInverted
                         THEN -CUBE_ROTATION_SPEED
                         ELSE CUBE_ROTATION_SPEED]

CubeMode_updateRotation(state, deltaTime) ==
  IF state.isGrounded
  THEN [state EXCEPT
          !.rotation = MathRound(state.rotation, 90 * DEG) * 90 * DEG,
          !.angularVelocity = 0]
  ELSE [state EXCEPT
          !.rotation = NormalizeRotation(
             state.rotation + (state.angularVelocity * deltaTime * DEG) \div 100)]

\* apply gravity, clamp to terminal velocity
CubeMode_applyGravity(state, deltaTime, config) ==
  LET gravityDirection == IF state.gravityInverted THEN -1 ELSE 1
  IN  [state EXCEPT !.velocity.y =
         clamp(state.velocity.y
                 + Accelerate(config.gravity * gravityDirection, deltaTime),
               -(config.terminalVelocity * VEL),
               config.terminalVelocity * VEL)]

\* a variant in which the coyote timer never runs down
CubeMode_tickCoyote_frozen(state, deltaTime) == state

\* update coyote time
CubeMode_tickCoyote(state, deltaTime) ==
  IF ~state.isGrounded /\ state.coyoteTimeRemaining > 0
  THEN [state EXCEPT !.coyoteTimeRemaining = @ - deltaTime]
  ELSE state

\* update jump buffer
CubeMode_tickJumpBuffer(state, deltaTime) ==
  IF state.jumpBuffered /\ state.jumpBufferTimeRemaining > 0
  THEN [state EXCEPT
          !.jumpBufferTimeRemaining = @ - deltaTime,
          !.jumpBuffered = ~(state.jumpBufferTimeRemaining - deltaTime <= 0)]
  ELSE state

\* a variant that jumps on every press, grounded or not
CubeMode_handleJumpInput_anywhere(state, input, config) ==
  IF input.jumpPressed
  THEN CubeMode_executeJump(state, config)
  ELSE state

\* handle jump input
CubeMode_handleJumpInput(state, input, config) ==
  LET canJump == state.isGrounded \/ state.coyoteTimeRemaining > 0
  IN  IF input.jumpPressed
      THEN IF canJump
           THEN CubeMode_executeJump(state, config)
           ELSE [state EXCEPT !.jumpBuffered = TRUE,
                              !.jumpBufferTimeRemaining = config.jumpBuffer]
      ELSE state

\* auto-jump when holding and landing
CubeMode_autoJump(state, input, config) ==
  IF input.jumpHeld /\ state.isGrounded /\ state.velocity.y >= 0
  THEN CubeMode_executeJump(state, config)
  ELSE state

\* a variant that runs the buffered jump and leaves the flag set
CubeMode_bufferedJump_keepFlag(state, config) ==
  IF state.isGrounded /\ state.jumpBuffered
       /\ state.jumpBufferTimeRemaining > 0
  THEN CubeMode_executeJump(state, config)
  ELSE state

\* execute buffered jump on landing
CubeMode_bufferedJump(state, config) ==
  IF state.isGrounded /\ state.jumpBuffered
       /\ state.jumpBufferTimeRemaining > 0
  THEN [CubeMode_executeJump(state, config) EXCEPT !.jumpBuffered = FALSE]
  ELSE state

\* update position
CubeMode_move(state, deltaTime) ==
  [state EXCEPT !.position.y = @ + Travel(state.velocity.y, deltaTime)]

CubeMode_update(state, input, deltaTime, config) ==
  IF state.isDead THEN state
  ELSE CubeMode_updateRotation(
         CubeMode_move(
           CubeMode_bufferedJump(
             CubeMode_autoJump(
               CubeMode_handleJumpInput(
                 CubeMode_tickJumpBuffer(
                   CubeMode_tickCoyote(
                     CubeMode_applyGravity(state, deltaTime, config),
                     deltaTime),
                   deltaTime),
                 input, config),
               input, config),
             config),
           deltaTime),
         deltaTime)

CubeMode_onEnter(state) ==
  [state EXCEPT !.mode = "cube",
                !.angularVelocity = IF state.isGrounded THEN 0 ELSE @]

(***************************************************************************)
(* ShipMode                                                                *)
(***************************************************************************)
ShipMode_updateRotation(state) ==
  LET maxTilt == 30 * DEG
      \* (velocity.y / 400) * maxTilt
      tilt == MathRound(state.velocity.y * maxTilt, 400 * VEL)
      clamped == clamp(tilt, -maxTilt, maxTilt)
      targetRotation == IF state.gravityInverted THEN -clamped ELSE clamped
      diff == targetRotation - state.rotation
      \* Math.min(rotationSpeed * 0.016, 1) = 0.16
  IN  [state EXCEPT !.rotation = @ + MathRound(diff * 16, 100)]

\* a variant in which thrust is added on top of gravity
ShipMode_update_thrustAndGravity(state, input, deltaTime, config) ==
  IF state.isDead THEN state
  ELSE
  LET gravityDirection == IF state.gravityInverted THEN -1 ELSE 1
      shipGravity == (config.gravity * SHIP_GRAVITY_PERCENT) \div 100
      accel == IF input.jumpHeld
               THEN (shipGravity - SHIP_THRUST_FORCE) * gravityDirection
               ELSE shipGravity * gravityDirection
      shipTerminalVelocity ==
        (config.terminalVelocity * VEL * SHIP_TERMINAL_PERCENT) \div 100
      s1 == [state EXCEPT !.velocity.y =
               clamp(state.velocity.y + Accelerate(accel, deltaTime),
                     -shipTerminalVelocity, shipTerminalVelocity)]
      s2 == [s1 EXCEPT !.position.y = @ + Travel(s1.velocity.y, deltaTime)]
  IN  ShipMode_updateRotation(s2)

ShipMode_update(state, input, deltaTime, config) ==
  IF state.isDead THEN state
  ELSE
  LET gravityDirection == IF state.gravityInverted THEN -1 ELSE 1
      shipGravity == (config.gravity * SHIP_GRAVITY_PERCENT) \div 100
      accel == IF input.jumpHeld
               THEN SHIP_THRUST_FORCE * (-gravityDirection)
               ELSE shipGravity * gravityDirection
      shipTerminalVelocity ==
        (config.terminalVelocity * VEL * SHIP_TERMINAL_PERCENT) \div 100
      s1 == [state EXCEPT !.velocity.y =
               clamp(state.velocity.y + Accelerate(accel, deltaTime),
                     -shipTerminalVelocity, shipTerminalVelocity)]
      s2 == [s1 EXCEPT !.position.y = @ + Travel(s1.velocity.y, deltaTime)]
  IN  ShipMode_updateRotation(s2)

ShipMode_onEnter(state) ==
  [state EXCEPT !.mode = "ship",
                !.rotation = 0,
                !.angularVelocity = 0,
                !.jumpBuffered = FALSE,
                !.jumpBufferTimeRemaining = 0,
                !.coyoteTimeRemaining = 0]

(***************************************************************************)
(* BallMode                                                                *)
(***************************************************************************)
\* a variant that applies the full jump force
BallMode_flipGravity_fullForce(state, config) ==
  LET inverted == ~state.gravityInverted
      direction == IF inverted THEN -1 ELSE 1
  IN  [state EXCEPT
         !.gravityInverted = inverted,
         !.velocity.y = config.jumpForce * VEL * direction,
         !.isGrounded = FALSE]

\* a variant that always ends with inverted gravity
BallMode_flipGravity_alwaysInvert(state, config) ==
  [state EXCEPT
     !.gravityInverted = TRUE,
     !.velocity.y = -((config.jumpForce * VEL) \div 2),
     !.isGrounded = FALSE]

BallMode_flipGravity(state, config) ==
  LET inverted == ~state.gravityInverted
      direction == IF inverted THEN -1 ELSE 1
  IN  [state EXCEPT
         !.gravityInverted = inverted,
         !.velocity.y = (config.jumpForce * VEL * direction) \div 2,
         !.isGrounded = FALSE]

BallMode_updateRotation(state, deltaTime) ==
  LET horizontalSpeed == SPEEDS[state.speed]
      \* 360 / (40 * PI) degrees per pixel, PI taken as 3.1416:
      \* 1125 / 3927 millidegrees per position unit
      rotationAmount == MathRound(horizontalSpeed * deltaTime * 1125, 3927)
      rollDirection == IF state.gravityInverted THEN -1 ELSE 1
  IN  [state EXCEPT !.rotation =
         NormalizeRotation(state.rotation + rotationAmount * rollDirection)]

BallMode_update(state, input, deltaTime, config) ==
  IF state.isDead THEN state
  ELSE
  LET gravityDirection == IF state.gravityInverted THEN -1 ELSE 1
      s1 == [state EXCEPT !.velocity.y =
               clamp(state.velocity.y
                       + Accelerate(config.gravity * gravityDirection, deltaTime),
                     -(config.terminalVelocity * VEL),
                     config.terminalVelocity * VEL)]
      s2 == IF input.jumpPressed /\ s1.isGrounded
            THEN BallMode_flipGravity(s1, config)
            ELSE s1
      s3 == [s2 EXCEPT !.position.y = @ + Travel(s2.velocity.y, deltaTime)]
  IN  BallMode_updateRotation(s3, deltaTime)

BallMode_onEnter(state) ==
  [state EXCEPT !.mode = "ball",
                !.angularVelocity = 0,
                !.jumpBuffered = FALSE,
                !.jumpBufferTimeRemaining = 0,
                !.coyoteTimeRemaining = 0]

(***************************************************************************)
(* IPlayerMode dispatch: the strategy object held in Player.currentMode    *)
(***************************************************************************)
Mode_update(mode, state, input, deltaTime, config) ==
  CASE mode = "cube" -> CubeMode_update(state, input, deltaTime, config)
    [] mode = "ship" -> ShipMode_update(state, input, deltaTime, config)
    [] mode = "ball" -> BallMode_update(state, input, deltaTime, config)

Mode_onEnter(mode, state) ==
  CASE mode = "cube" -> CubeMode_onEnter(state)
    [] mode = "ship" -> ShipMode_onEnter(state)
    [] mode = "ball" -> BallMode_onEnter(state)

\* onExit is empty in all three strategies
Mode_onExit(mode, state) == state

(***************************************************************************)
(* Player: the tick driver and the operations collaborators call on it     *)
(*                                                                         *)
(* A Player value is the record of the object's physics fields:            *)
(*   physicsState, physicsConfig, currentMode, currentSpeed,               *)
(*   wasGroundedLastFrame, wasInAir.                                       *)
(* Every operation returns [player, events]: the new value and the         *)
(* notifications it emitted, in order.                                     *)
(***************************************************************************)
\* DEFAULT_CONFIG.startX, DEFAULT_CONFIG.startY
startX == UNIT_SIZE * 3 * PX

startY == (DEFAULT_GROUND_Y * UNIT_SIZE - SIZE_PLAYER \div 2) * PX

\* "no music time supplied"
Undefined == -1

Player_new ==
  [physicsState |->
     createDefaultPhysicsState(startX, startY, TRUE, "cube", "normal", FALSE),
   physicsConfig |-> PhysicsConfig,
   currentMode |-> "cube",
   currentSpeed |-> SPEEDS["normal"],
   wasGroundedLastFrame |-> TRUE,
   wasInAir |-> FALSE]

Player_getHitbox(state) ==
  getPlayerHitbox(state.position.x, state.position.y,
                  SIZE_PLAYER * PX, SIZE_PLAYER * PX, state.mode = "cube")

Player_die(state) ==
  IF state.isDead
  THEN [state |-> state, events |-> <<>>]
  ELSE [state |-> [state EXCEPT !.isDead = TRUE], events |-> <<"death">>]

\* one solid collision with a vertical normal
Player_resolveSolid(state, collision) ==
  LET moved == [state EXCEPT !.position.y =
                  @ - collision.overlapY * collision.normal.y]
  IN  IF collision.normal.y > 0
      THEN IF moved.velocity.y > 0
           THEN [moved EXCEPT !.velocity.y = 0] ELSE moved
      ELSE IF moved.velocity.y < 0
           THEN [moved EXCEPT !.velocity.y = 0] ELSE moved

RECURSIVE Player_processCollisionsFrom(_, _, _)
Player_processCollisionsFrom(state, collisions, i) ==
  IF i > Len(collisions)
  THEN [state |-> state, events |-> <<>>]
  ELSE IF collisions[i].isHazard
  THEN Player_die(state)
  ELSE IF collisions[i].isSolid /\ collisions[i].collision.normal.y # 0
  THEN Player_processCollisionsFrom(
         Player_resolveSolid(state, collisions[i].collision), collisions, i + 1)
  ELSE Player_processCollisionsFrom(state, collisions, i + 1)

Player_processCollisions(state, collisions) ==
  Player_processCollisionsFrom(state, collisions, 1)

Player_applyGroundConstraint(state) ==
  LET groundY == (DEFAULT_GROUND_Y * UNIT_SIZE - SIZE_PLAYER \div 2) * PX
  IN  IF state.position.y > groundY
      THEN [state EXCEPT !.position.y = groundY,
                         !.velocity.y = 0,
                         !.isGrounded = TRUE]
      ELSE state

Player_onLanding(state) ==
  [state EXCEPT !.rotation = MathRound(state.rotation, 90 * DEG) * 90 * DEG,
                !.angularVelocity = 0]

\* The stages of one Player.update on a live player, kept apart so that
\* properties can speak about the state between two stages.
\* From the landing check to the ground constraint:
Player_updateBookkeeping(pl, afterMode, collisions, processed, groundedNow) ==
  LET wasInAir == ~pl.physicsState.isGrounded
      afterCollisions == processed.state
      wasGroundedLastFrame == afterCollisions.isGrounded
      landed == wasInAir /\ groundedNow
      grounded == [afterCollisions EXCEPT !.isGrounded = groundedNow]
      afterLanding == IF landed THEN Player_onLanding(grounded) ELSE grounded
      left == wasGroundedLastFrame /\ ~groundedNow
      jumped == left /\ afterCollisions.velocity.y < 0
      afterLeaving ==
        IF left
        THEN [afterLanding EXCEPT
                !.coyoteTimeRemaining = pl.physicsConfig.coyoteTime]
        ELSE afterLanding
  IN  [wasInAir |-> wasInAir,
       afterMode |-> afterMode,
       collisions |-> collisions,
       afterCollisions |-> afterCollisions,
       wasGroundedLastFrame |-> wasGroundedLastFrame,
       beforeConstraint |-> afterLeaving,
       final |-> Player_applyGroundConstraint(afterLeaving),
       events |-> processed.events
                    \o (IF landed THEN <<"land">> ELSE <<>>)
                    \o (IF jumped THEN <<"jump">> ELSE <<>>)]

\* the collisions of the hitbox are processed; the same hitbox probes the
\* ground
Player_updateCollisions(pl, afterMode, collisions, groundedNow) ==
  Player_updateBookkeeping(pl, afterMode, collisions,
                           Player_processCollisions(afterMode, collisions),
                           groundedNow)

\* the hitbox is taken once, after the mode update
Player_updateHitbox(pl, afterMode, hitbox, objects) ==
  Player_updateCollisions(pl, afterMode,
                          checkPlayerCollisions(hitbox, objects),
                          checkGrounded(hitbox, objects))

\* a variant that leaves position.x where it is
Player_syncX_noSync(pl, audioTime) == pl.physicsState

\* X is synced to the music clock before the mode update
Player_syncX(pl, audioTime) ==
  IF audioTime # Undefined
  THEN [pl.physicsState EXCEPT !.position.x =
          startX + audioTime * pl.currentSpeed]
  ELSE pl.physicsState

\* the mode has updated the state
Player_updateAfterMode(pl, afterMode, objects) ==
  Player_updateHitbox(pl, afterMode, Player_getHitbox(afterMode), objects)

Player_updateStages(pl, objects, input, deltaTime, audioTime) ==
  Player_updateAfterMode(
    pl,
    Mode_update(pl.currentMode, Player_syncX(pl, audioTime), input,
                deltaTime, pl.physicsConfig),
    objects)

\* the object after an update that went through the stages `st`
Player_updated(pl, st) ==
  [player |-> [pl EXCEPT
                 !.physicsState = st.final,
                 !.wasInAir = st.wasInAir,
                 !.wasGroundedLastFrame = st.wasGroundedLastFrame],
   events |-> st.events]

\* Player.update without its `if (this.physicsState.isDead) return`
Player_update_noDeadGuard(pl, objects, input, deltaTime, audioTime) ==
  Player_updated(pl, Player_updateStages(pl, objects, input, deltaTime,
                                         audioTime))

Player_update(pl, objects, input, deltaTime, audioTime) ==
  IF pl.physicsState.isDead
  THEN [player |-> pl, events |-> <<>>]
  ELSE Player_updated(pl, Player_updateStages(pl, objects, input, deltaTime,
                                              audioTime))

Player_setMode(pl, mode) ==
  IF pl.physicsState.mode = mode
  THEN [player |-> pl, events |-> <<>>]
  ELSE [player |-> [pl EXCEPT
                      !.currentMode = mode,
                      !.physicsState =
                         Mode_onEnter(mode,
                           Mode_onExit(pl.currentMode, pl.physicsState))],
        events |-> <<"modeChange">>]

Player_setSpeed(pl, speedMode) ==
  [player |-> [pl EXCEPT !.currentSpeed = SPEEDS[speedMode],
                         !.physicsState.speed = speedMode],
   events |-> <<>>]

Player_flipGravity(pl) ==
  [player |-> [pl EXCEPT !.physicsState.gravityInverted = ~@],
   events |-> <<"gravityFlip">>]

Player_applyJumpImpulse(pl, force) ==
  IF pl.physicsState.isDead
  THEN [player |-> pl, events |-> <<>>]
  ELSE [player |-> [pl EXCEPT
                      !.physicsState.velocity.y =
                         force * VEL
                           * (IF pl.physicsState.gravityInverted THEN 1 ELSE -1),
                      !.physicsState.isGrounded = FALSE],
        events |-> <<"jump">>]

Player_applyBoostImpulse(pl, force) ==
  IF pl.physicsState.isDead
  THEN [player |-> pl, events |-> <<>>]
  ELSE [player |-> [pl EXCEPT
                      !.physicsState.velocity.y =
                         force * VEL
                           * (IF pl.physicsState.gravityInverted THEN 1 ELSE -1)],
        events |-> <<"jump">>]

Player_reset(pl) ==
  [player |-> [pl EXCEPT
                 !.physicsState =
                    createDefaultPhysicsState(startX, startY, TRUE,
                                              "cube", "normal", FALSE),
                 !.wasGroundedLastFrame = TRUE,
                 !.wasInAir = FALSE],
   events |-> <<>>]

Player_respawnAtCheckpoint(pl, x, y, mode, speed, gravityInverted) ==
  LET fresh == [pl EXCEPT
                  !.physicsState =
                     createDefaultPhysicsState(x, y, TRUE, mode, speed,
                                               gravityInverted),
                  !.wasGroundedLastFrame = TRUE,
                  !.wasInAir = FALSE]
      m == Player_setMode(fresh, mode)
      sp == Player_setSpeed(m.player, speed)
      g == IF gravityInverted # sp.player.physicsState.gravityInverted
           THEN Player_flipGravity(sp.player)
           ELSE [player |-> sp.player, events |-> <<>>]
  IN  [player |-> g.player, events |-> m.events \o sp.events \o g.events]

(***************************************************************************)
(* CheckpointManager                                                       *)
(***************************************************************************)
\* null: no checkpoint id, no checkpoint state
Null == [id |-> Undefined]

CheckpointManager_new ==
  [isPracticeMode |-> FALSE,
   checkpointStates |-> <<>>,
   lastCheckpointId |-> Undefined,
   triggeredCheckpoints |-> {}]

\* Map.set
MapSet(map, key, value) ==
  [k \in DOMAIN map \cup {key} |-> IF k = key THEN value ELSE map[k]]

\* the variant that forgets the triggers but keeps the saved states
CheckpointManager_clearAllCheckpoints_triggersOnly(manager) ==
  [manager EXCEPT !.triggeredCheckpoints = {}]

CheckpointManager_clearAllCheckpoints(manager) ==
  [manager EXCEPT !.checkpointStates = <<>>,
                  !.lastCheckpointId = Undefined,
                  !.triggeredCheckpoints = {}]

CheckpointManager_resetTriggeredCheckpoints(manager) ==
  [manager EXCEPT !.triggeredCheckpoints = {}]

CheckpointManager_setPracticeMode(manager, enabled) ==
  IF manager.isPracticeMode = enabled
  THEN [manager |-> manager, events |-> <<>>]
  ELSE [manager |->
          IF enabled
          THEN [manager EXCEPT !.isPracticeMode = TRUE]
          ELSE CheckpointManager_clearAllCheckpoints(
                 [manager EXCEPT !.isPracticeMode = FALSE]),
        events |-> <<"practiceModeChanged">>]

CheckpointManager_togglePracticeMode(manager) ==
  CheckpointManager_setPracticeMode(manager, ~manager.isPracticeMode)

\* the record saved for a checkpoint; now is the wall clock
CheckpointState(checkpointId, physicsState, audioTime, gridX, gridY, now) ==
  [id |-> checkpointId,
   gridX |-> gridX,
   gridY |-> gridY,
   audioTime |-> audioTime,
   mode |-> physicsState.mode,
   speed |-> physicsState.speed,
   gravityInverted |-> physicsState.gravityInverted,
   playerX |-> physicsState.position.x,
   playerY |-> physicsState.position.y,
   savedAt |-> now]

\* what recordCheckpoint does once the state to save is built
CheckpointManager_record(manager, state) ==
  IF ~manager.isPracticeMode
  THEN [manager |-> [manager EXCEPT !.triggeredCheckpoints = @ \cup {state.id}],
        events |-> <<>>,
        result |-> Null]
  ELSE [manager |->
          [manager EXCEPT
             !.triggeredCheckpoints = @ \cup {state.id},
             !.checkpointStates = MapSet(@, state.id, state),
             !.lastCheckpointId = state.id],
        events |-> IF state.id \notin manager.triggeredCheckpoints
                   THEN <<"checkpointReached">>
                   ELSE <<>>,
        result |-> state]

\* result is the returned state or Null
CheckpointManager_recordCheckpoint(manager, checkpointId, physicsState, audioTime, gridX, gridY, now) ==
  CheckpointManager_record(manager, CheckpointState(checkpointId, physicsState, audioTime, gridX, gridY, now))

CheckpointManager_getLastCheckpoint(manager) ==
  IF manager.lastCheckpointId = Undefined
  THEN Null
  ELSE IF manager.lastCheckpointId \in DOMAIN manager.checkpointStates
       THEN manager.checkpointStates[manager.lastCheckpointId]
       ELSE Null

CheckpointManager_hasCheckpoint(manager) ==
  /\ manager.lastCheckpointId # Undefined
  /\ manager.lastCheckpointId \in DOMAIN manager.checkpointStates

CheckpointManager_getRespawnState(manager) ==
  IF ~manager.isPracticeMode
  THEN Null
  ELSE CheckpointManager_getLastCheckpoint(manager)

CheckpointManager_notifyRespawn(manager) ==
  [manager |-> manager, events |-> <<"checkpointRespawn">>]

(***************************************************************************)
(* GameScene                                                               *)
(***************************************************************************)
\* centre of a grid cell, where the pool places its objects
CellCentre(grid) == (grid * UNIT_SIZE + UNIT_SIZE \div 2) * PX

\* target is the mode or the speed tier the portal switches to
PooledPortal(gridX, gridY, portalType, target) ==
  [x |-> CellCentre(gridX), y |-> CellCentre(gridY),
   portalType |-> portalType, target |-> target, triggered |-> FALSE]

PooledCheckpoint(gridX, gridY, checkpointId) ==
  [x |-> CellCentre(gridX), y |-> CellCentre(gridY),
   checkpointId |-> checkpointId, triggered |-> FALSE]

\* pads and orbs
PooledJumper(gridX, gridY, jumpForce) ==
  [x |-> CellCentre(gridX), y |-> CellCentre(gridY),
   jumpForce |-> jumpForce, triggered |-> FALSE]

\* the hitbox overlaps the box of the given half extents (in px) around
\* the object's position
InZone(hitbox, obj, halfWidth, halfHeight) ==
  /\ hitbox.x < obj.x + halfWidth * PX
  /\ hitbox.x + hitbox.width > obj.x - halfWidth * PX
  /\ hitbox.y < obj.y + halfHeight * PX
  /\ hitbox.y + hitbox.height > obj.y - halfHeight * PX

\* the player's feet are in the top 16 px of the pad
OnPad(hitbox, pad) ==
  /\ hitbox.x + hitbox.width \div 2 > pad.x - 20 * PX
  /\ hitbox.x + hitbox.width \div 2 < pad.x + 20 * PX
  /\ hitbox.y + hitbox.height > pad.y - 16 * PX
  /\ hitbox.y + hitbox.height < pad.y + 10 * PX
  /\ hitbox.y < pad.y - 16 * PX

\* the scene's own fields; a delayed call waits in timers until it fires
GameScene_new(portals, checkpoints, pads, orbs) ==
  [attempt |-> 1,
   isPaused |-> FALSE,
   isComplete |-> FALSE,
   inputState |-> [jumpPressed |-> FALSE, jumpHeld |-> FALSE],
   jumpWasPressed |-> FALSE,
   portals |-> portals,
   checkpoints |-> checkpoints,
   pads |-> pads,
   orbs |-> orbs,
   timers |-> <<>>]

\* what a frame works on: the player, the checkpoint manager, the scene, the
\* scene's clock, and the notifications emitted so far in the frame
World(pl, manager, sc, time) ==
  [player |-> pl, manager |-> manager, scene |-> sc, gameTime |-> time,
   events |-> <<>>]

GameScene_onPlayerDeath(w) ==
  [w EXCEPT !.scene.timers =
     Append(@, IF CheckpointManager_getRespawnState(w.manager) # Null
               THEN [call |-> "respawnAtCheckpoint",
                     checkpoint |-> CheckpointManager_getRespawnState(w.manager)]
               ELSE [call |-> "restart", checkpoint |-> Null])]

RECURSIVE Listen(_, _, _)
\* the scene's listeners run for every notification the player emits
Listen(w, emitted, i) ==
  IF i > Len(emitted)
  THEN w
  ELSE IF emitted[i] = "death"
       THEN Listen(GameScene_onPlayerDeath(w), emitted, i + 1)
       ELSE Listen(w, emitted, i + 1)

\* the world after a Player operation with result r
Acted(w, r) ==
  Listen([w EXCEPT !.player = r.player, !.events = @ \o r.events],
         r.events, 1)

ResetTriggers(objs) == [i \in DOMAIN objs |-> [objs[i] EXCEPT !.triggered = FALSE]]

GameScene_restart(w) ==
  Acted([w EXCEPT
           !.scene.attempt = @ + 1,
           !.scene.isComplete = FALSE,
           !.gameTime = 0,
           !.scene.portals = ResetTriggers(@),
           !.scene.checkpoints = ResetTriggers(@),
           !.scene.pads = ResetTriggers(@),
           !.scene.orbs = ResetTriggers(@),
           !.manager = CheckpointManager_resetTriggeredCheckpoints(@)],
        Player_reset(w.player))

GameScene_respawnAtCheckpoint(w, checkpoint) ==
  [Acted([w EXCEPT
            !.scene.isComplete = FALSE,
            !.gameTime = checkpoint.audioTime,
            !.scene.portals = ResetTriggers(@)],
         Player_respawnAtCheckpoint(w.player, checkpoint.playerX,
                                    checkpoint.playerY, checkpoint.mode,
                                    checkpoint.speed, checkpoint.gravityInverted))
     EXCEPT !.events = @ \o CheckpointManager_notifyRespawn(w.manager).events]

GameScene_togglePause(w) == [w EXCEPT !.scene.isPaused = ~@]

GameScene_togglePracticeMode(w) ==
  [w EXCEPT !.manager = CheckpointManager_togglePracticeMode(@).manager,
            !.events = @ \o CheckpointManager_togglePracticeMode(w.manager).events]

GameScene_handlePortalTrigger(pl, portal) ==
  IF portal.portalType = "mode" /\ portal.target # ""
  THEN Player_setMode(pl, portal.target)
  ELSE IF portal.portalType = "gravity"
  THEN Player_flipGravity(pl)
  ELSE IF portal.portalType = "speed" /\ portal.target # ""
  THEN Player_setSpeed(pl, portal.target)
  ELSE [player |-> pl, events |-> <<>>]

RECURSIVE GameScene_checkPortalCollisionsFrom(_, _, _)
GameScene_checkPortalCollisionsFrom(w, playerHitbox, i) ==
  IF i > Len(w.scene.portals)
  THEN w
  ELSE IF w.scene.portals[i].triggered \/ ~InZone(playerHitbox, w.scene.portals[i], 16, 50)
  THEN GameScene_checkPortalCollisionsFrom(w, playerHitbox, i + 1)
  ELSE GameScene_checkPortalCollisionsFrom(
         Acted([w EXCEPT !.scene.portals[i].triggered = TRUE],
               GameScene_handlePortalTrigger(w.player, w.scene.portals[i])),
         playerHitbox, i + 1)

GameScene_checkPortalCollisions(w) ==
  GameScene_checkPortalCollisionsFrom(w, Player_getHitbox(w.player.physicsState), 1)

\* now is the wall clock
GameScene_handleCheckpointTrigger(w, checkpoint, now) ==
  [w EXCEPT
     !.manager = CheckpointManager_recordCheckpoint(@, checkpoint.checkpointId, w.player.physicsState, w.gameTime, checkpoint.x \div (UNIT_SIZE * PX), checkpoint.y \div (UNIT_SIZE * PX), now).manager,
     !.events = @ \o CheckpointManager_recordCheckpoint(w.manager, checkpoint.checkpointId, w.player.physicsState, w.gameTime, checkpoint.x \div (UNIT_SIZE * PX), checkpoint.y \div (UNIT_SIZE * PX), now).events]

RECURSIVE GameScene_checkCheckpointCollisionsFrom(_, _, _, _)
GameScene_checkCheckpointCollisionsFrom(w, playerHitbox, now, i) ==
  IF i > Len(w.scene.checkpoints)
  THEN w
  ELSE IF w.scene.checkpoints[i].triggered \/ ~InZone(playerHitbox, w.scene.checkpoints[i], 16, 16)
  THEN GameScene_checkCheckpointCollisionsFrom(w, playerHitbox, now, i + 1)
  ELSE GameScene_checkCheckpointCollisionsFrom(
         GameScene_handleCheckpointTrigger(
           [w EXCEPT !.scene.checkpoints[i].triggered = TRUE],
           w.scene.checkpoints[i], now),
         playerHitbox, now, i + 1)

GameScene_checkCheckpointCollisions(w, now) ==
  GameScene_checkCheckpointCollisionsFrom(w, Player_getHitbox(w.player.physicsState), now, 1)

RECURSIVE GameScene_checkPadCollisionsFrom(_, _, _)
GameScene_checkPadCollisionsFrom(w, playerHitbox, i) ==
  IF i > Len(w.scene.pads)
  THEN w
  ELSE IF w.scene.pads[i].triggered \/ ~OnPad(playerHitbox, w.scene.pads[i])
  THEN GameScene_checkPadCollisionsFrom(w, playerHitbox, i + 1)
  ELSE GameScene_checkPadCollisionsFrom(
         Acted([w EXCEPT !.scene.pads[i].triggered = TRUE],
               Player_applyJumpImpulse(w.player, w.scene.pads[i].jumpForce)),
         playerHitbox, i + 1)

GameScene_checkPadCollisions(w) ==
  GameScene_checkPadCollisionsFrom(w, Player_getHitbox(w.player.physicsState), 1)

RECURSIVE GameScene_checkOrbCollisionsFrom(_, _, _)
GameScene_checkOrbCollisionsFrom(w, playerHitbox, i) ==
  IF i > Len(w.scene.orbs)
  THEN w
  ELSE IF /\ InZone(playerHitbox, w.scene.orbs[i], 20, 20)
          /\ ~w.scene.orbs[i].triggered
          /\ w.scene.inputState.jumpPressed
  THEN GameScene_checkOrbCollisionsFrom(
         Acted([w EXCEPT !.scene.orbs[i].triggered = TRUE],
               Player_applyBoostImpulse(w.player, w.scene.orbs[i].jumpForce)),
         playerHitbox, i + 1)
  ELSE GameScene_checkOrbCollisionsFrom(w, playerHitbox, i + 1)

GameScene_checkOrbCollisions(w) ==
  GameScene_checkOrbCollisionsFrom(w, Player_getHitbox(w.player.physicsState), 1)

\* length of the levels, in position units
LevelLength == 100 * UNIT_SIZE * PX

\* the level is complete when the player has travelled its length; the
\* scene then waits for the delayed switch to the level select scene
GameScene_updateUI(w) ==
  IF w.player.physicsState.position.x - startX >= LevelLength /\ ~w.scene.isComplete
  THEN [w EXCEPT !.scene.isComplete = TRUE,
                 !.scene.timers = Append(@, [call |-> "levelSelect", checkpoint |-> Null])]
  ELSE w

\* keyboard poll at the head of the frame: keys.jump is space or up held
GameScene_pollJump(w, keys) ==
  [w EXCEPT !.scene.inputState = [jumpPressed |-> keys.jump /\ ~w.scene.jumpWasPressed,
                                  jumpHeld |-> keys.jump],
            !.scene.jumpWasPressed = keys.jump]

GameScene_clearPressed(w) == [w EXCEPT !.scene.inputState.jumpPressed = FALSE]

\* the player update and what the frame does after it
GameScene_tick(w, objects, delta, now) ==
  GameScene_updateUI(
    GameScene_clearPressed(
      GameScene_checkOrbCollisions(
        GameScene_checkPadCollisions(
          GameScene_checkCheckpointCollisions(
            GameScene_checkPortalCollisions(
              Acted(w, Player_update(w.player, objects, w.scene.inputState,
                                     delta, w.gameTime))),
            now)))))

\* the frame after the keyboard poll
GameScene_afterPoll(w, objects, keys, delta, now) ==
  IF keys.r
  THEN GameScene_restart(w)
  ELSE IF keys.escape
  THEN GameScene_togglePause(w)
  ELSE GameScene_tick(IF keys.p THEN GameScene_togglePracticeMode(w) ELSE w,
                      objects, delta, now)

\* GameScene.update with the clock that runs without the song; keys.r is R
\* held, keys.escape and keys.p are JustDown of the key
GameScene_update(w, objects, keys, delta, now) ==
  IF w.scene.isPaused \/ w.scene.isComplete
  THEN w
  ELSE GameScene_afterPoll(
         GameScene_pollJump([w EXCEPT !.gameTime = @ + delta], keys),
         objects, keys, delta, now)

\* the frame reaches player.update
Ticks(sc, keys) == ~sc.isPaused /\ ~sc.isComplete /\ ~keys.r /\ ~keys.escape

GameScene_pointerdown(sc) ==
  [sc EXCEPT !.inputState = [jumpPressed |-> TRUE, jumpHeld |-> TRUE]]

GameScene_pointerup(sc) == [sc EXCEPT !.inputState.jumpHeld = FALSE]

(***************************************************************************)
(* ObjectPool: the block pool (the other five pools run the same code)     *)
(***************************************************************************)
\* pooled objects are told apart by the order of their creation; warmUp
\* creates the first initialBlocks of them
ObjectPool_new(initialBlocks) ==
  [blockPool |-> [i \in 1..initialBlocks |-> i],
   activeBlocks |-> <<>>,
   created |-> initialBlocks]

\* Array.indexOf: 0 when absent
IndexOf(seq, item) ==
  IF \E i \in DOMAIN seq : seq[i] = item
  THEN CHOOSE i \in DOMAIN seq : seq[i] = item /\ \A j \in 1..(i - 1) : seq[j] # item
  ELSE 0

\* Array.splice(index, 1)
Splice(seq, index) == SubSeq(seq, 1, index - 1) \o SubSeq(seq, index + 1, Len(seq))

\* block is the object returned
ObjectPool_acquireBlock(pool) ==
  IF pool.blockPool # <<>>
  THEN [pool |-> [pool EXCEPT
                    !.blockPool = SubSeq(@, 1, Len(@) - 1),
                    !.activeBlocks = Append(@, pool.blockPool[Len(pool.blockPool)])],
        block |-> pool.blockPool[Len(pool.blockPool)]]
  ELSE [pool |-> [pool EXCEPT
                    !.created = @ + 1,
                    !.activeBlocks = Append(@, pool.created + 1)],
        block |-> pool.created + 1]

ObjectPool_releaseBlock(pool, block) ==
  [pool EXCEPT
     !.activeBlocks = IF IndexOf(@, block) # 0 THEN Splice(@, IndexOf(@, block)) ELSE @,
     !.blockPool = Append(@, block)]

ObjectPool_releaseAll(pool) ==
  [pool EXCEPT !.blockPool = @ \o pool.activeBlocks,
               !.activeBlocks = <<>>]

(***************************************************************************)
(* Level objects handed to Player.setLevelObjects                          *)
(***************************************************************************)
\* PooledBlock / PooledSpike activated at a grid cell
Collidable(type, layer, gridX, gridY) ==
  [x |-> (gridX * UNIT_SIZE + UNIT_SIZE \div 2) * PX,
   y |-> (gridY * UNIT_SIZE + UNIT_SIZE \div 2) * PX,
   width |-> SIZE_BLOCK * PX,
   height |-> SIZE_BLOCK * PX,
   type |-> type,
   collisionLayer |-> layer,
   active |-> TRUE]

Block(gridX, gridY) == Collidable("block", LAYER_SOLID, gridX, gridY)

Spike(gridX, gridY) == Collidable("spike", LAYER_HAZARD, gridX, gridY)

\* Levels around the start cell (grid column 3, ground at row 12):
\* a block one row above the player's head, a block flush with the ground,
\* a spike in the player's own cell, in both list orders.
Levels ==
  { <<>>,
    <<Block(3, 10)>>,
    <<Block(3, 12)>>,
    <<Block(3, 10), Spike(3, 11)>>,
    <<Spike(3, 11), Block(3, 10)>>,
    <<Block(3, 12), Spike(3, 11)>>,
    <<[Spike(3, 11) EXCEPT !.active = FALSE], Block(3, 12)>> }

\* frame durations, in centiseconds
DeltaTimes == {1, 5}

\* speed tiers exercised
SpeedModes == {"normal", "fast"}

\* saved checkpoint states a respawn can restore
CheckpointStates ==
  { [playerX |-> startX, playerY |-> startY, mode |-> m, speed |-> "normal",
     gravityInverted |-> g, audioTime |-> 0] :
       m \in Modes, g \in BOOLEAN }

(***************************************************************************)
(* State                                                                   *)
(***************************************************************************)
VARIABLES
  player,        \* the Player object
  levelObjects,  \* Player.levelObjects
  gameTime,      \* the music clock handed to Player.update
  events,        \* notifications emitted by the last operation
  lastOp,        \* the last operation: name, arguments, player before it
  ticks,         \* number of update calls so far
  calls,         \* number of other calls so far
  probe,         \* arguments and result of the last collision-module call
  checkpointManager,  \* the CheckpointManager service
  history,       \* what the manager did since its triggers were last reset
  scene,         \* the GameScene
  objectPool     \* the scene's ObjectPool

\* the state outside the Player
aside == <<probe, checkpointManager, history, scene, objectPool>>

vars ==
  <<player, levelObjects, gameTime, events, lastOp, ticks, calls, aside>>

\* blocks the pool is warmed up with
InitialBlocks == 2

\* no collision-module call has been made
NoProbe == [op |-> "none"]

\* checkpoint ids that occur in the levels
CheckpointIds == {1, 2}

\* nothing saved or announced since the triggers were last reset
NoHistory ==
  [before |-> CheckpointManager_new,
   saved |-> {},
   reached |-> [id \in CheckpointIds |-> 0]]

\* no scene has been created
NoScene == [attempt |-> 0]

InitAside ==
  /\ probe = NoProbe
  /\ objectPool = ObjectPool_new(InitialBlocks)
  /\ checkpointManager = CheckpointManager_new
  /\ history = NoHistory
  /\ scene = NoScene

NoInput == [jumpPressed |-> FALSE, jumpHeld |-> FALSE]

\* the record of an update: its arguments and the player it was called on
UpdateOp(input, deltaTime, audioTime) ==
  [name |-> "update", arg |-> "", before |-> player, input |-> input,
   deltaTime |-> deltaTime, audioTime |-> audioTime]

\* the record of any other call: its name and its (first) argument
CallOp(name, arg) ==
  [name |-> name, arg |-> arg, before |-> Player_new, input |-> NoInput,
   deltaTime |-> 0, audioTime |-> Undefined]

Init ==
  /\ player = Player_new
  /\ levelObjects \in Levels
  /\ gameTime = 0
  /\ events = <<>>
  /\ lastOp = CallOp("new", "")
  /\ ticks = 0
  /\ calls = 0
  /\ InitAside

\* apply the result of a Player operation
Apply(result, name, arg) ==
  /\ player' = result.player
  /\ events' = result.events
  /\ lastOp' = CallOp(name, arg)

Call ==
  /\ calls < MaxCalls
  /\ calls' = calls + 1
  /\ UNCHANGED <<levelObjects, ticks, aside>>

\* one frame: the clock advances by the frame duration, then Player.update
Update ==
  /\ ticks < MaxTicks
  /\ \E input \in InputStates, deltaTime \in DeltaTimes :
       LET result == Player_update(player, levelObjects, input, deltaTime,
                                   gameTime + deltaTime)
       IN  /\ player' = result.player
           /\ events' = result.events
           /\ lastOp' = UpdateOp(input, deltaTime, gameTime + deltaTime)
           /\ gameTime' = gameTime + deltaTime
  /\ ticks' = ticks + 1
  /\ UNCHANGED <<levelObjects, calls, aside>>

SetMode ==
  /\ Call
  /\ \E mode \in Modes : Apply(Player_setMode(player, mode), "setMode", mode)
  /\ UNCHANGED gameTime

SetSpeed ==
  /\ Call
  /\ \E speedMode \in SpeedModes :
       Apply(Player_setSpeed(player, speedMode), "setSpeed", speedMode)
  /\ UNCHANGED gameTime

FlipGravity ==
  /\ Call
  /\ Apply(Player_flipGravity(player), "flipGravity", "")
  /\ UNCHANGED gameTime

ApplyJumpImpulse ==
  /\ Call
  /\ \E force \in PadForces :
       Apply(Player_applyJumpImpulse(player, force), "applyJumpImpulse", "")
  /\ UNCHANGED gameTime

ApplyBoostImpulse ==
  /\ Call
  /\ \E force \in OrbForces :
       Apply(Player_applyBoostImpulse(player, force), "applyBoostImpulse", "")
  /\ UNCHANGED gameTime

\* GameScene.restart: the clock restarts with the player
Reset ==
  /\ Call
  /\ Apply(Player_reset(player), "reset", "")
  /\ gameTime' = 0

\* GameScene.respawnAtCheckpoint: the clock is set to the checkpoint's time
RespawnAtCheckpoint ==
  /\ Call
  /\ \E cp \in CheckpointStates :
       /\ Apply(Player_respawnAtCheckpoint(player, cp.playerX, cp.playerY,
                                           cp.mode, cp.speed,
                                           cp.gravityInverted),
                "respawnAtCheckpoint", cp.mode)
       /\ gameTime' = cp.audioTime

Next ==
  \/ Update
  \/ SetMode
  \/ SetSpeed
  \/ FlipGravity
  \/ ApplyJumpImpulse
  \/ ApplyBoostImpulse
  \/ Reset
  \/ RespawnAtCheckpoint

Spec == Init /\ [][Next]_vars

(***************************************************************************)
(* The strategies called on their own, as the unit tests call them:        *)
(* cubeMode.update / shipMode.update / ballMode.update on a PhysicsState.  *)
(* The states handed to them are mid-flight states (rotation a multiple of *)
(* the 3.6 degrees a cube turns per centisecond, ship tilt 0 as onEnter    *)
(* leaves it) and the same states after the driver's landing snap.         *)
(***************************************************************************)
\* rotations a mode is entered with, in millidegrees
FlightRotations(mode) ==
  IF mode = "ship" THEN {0} ELSE {0, 88 * 3600, 99 * 3600}

\* vertical velocities, in velocity units
FlightVelocities == {-(JUMP_FORCE * VEL), 0, 2 * GRAVITY}

AirborneStatesOf(mode) ==
  { [createDefaultPhysicsState(startX, startY - 3 * UNIT_SIZE * PX, FALSE,
                               mode, "normal", inverted)
       EXCEPT !.rotation = rotation,
              !.velocity.y = velocity,
              !.angularVelocity =
                 IF mode # "cube" THEN 0
                 ELSE IF inverted THEN -CUBE_ROTATION_SPEED
                 ELSE CUBE_ROTATION_SPEED] :
      inverted \in BOOLEAN,
      rotation \in FlightRotations(mode), velocity \in FlightVelocities }

AirborneStates == UNION { AirborneStatesOf(mode) : mode \in Modes }

\* the same states once Player.update has found ground under them
LandedStates ==
  { Player_onLanding([state EXCEPT !.isGrounded = TRUE, !.velocity.y = 0]) :
      state \in AirborneStates }

\* the configurations a session may be given: the defaults, and the game
\* configuration with the jump buffer switched off
Configs == {PhysicsConfig, [PhysicsConfig EXCEPT !.jumpBuffer = 0]}

\* a cube on the tick Player.update saw it leave the ground without a jump:
\* the coyote timer holds the full configured window
EdgeFallStates(config) ==
  { [state EXCEPT !.coyoteTimeRemaining = config.coyoteTime] :
      state \in AirborneStatesOf("cube") }

\* the parts of the jump-buffer window that may be left, in centiseconds
BufferWindows(config) == {config.jumpBuffer, 5, 1} \cap (1..config.jumpBuffer)

\* a cube in flight whose press was buffered by an earlier update
BufferedStates(config) ==
  { [state EXCEPT !.jumpBuffered = TRUE,
                  !.jumpBufferTimeRemaining = remaining] :
      state \in AirborneStatesOf("cube"),
      remaining \in BufferWindows(config) }

\* the buffered states once Player.update has found ground under them
LandedBufferedStates(config) ==
  { Player_onLanding([state EXCEPT !.isGrounded = TRUE, !.velocity.y = 0]) :
      state \in BufferedStates(config) }

StrategyStates(config) ==
  AirborneStates \cup LandedStates \cup EdgeFallStates(config)
    \cup BufferedStates(config) \cup LandedBufferedStates(config)

\* gameTime counts the time the updates have covered since the first state
InitModes ==
  /\ \E config \in Configs :
       \E state \in StrategyStates(config) :
         player = [Player_new EXCEPT !.physicsState = state,
                                     !.physicsConfig = config,
                                     !.currentMode = state.mode]
  /\ levelObjects = <<>>
  /\ gameTime = 0
  /\ events = <<>>
  /\ lastOp = CallOp("new", "")
  /\ ticks = 0
  /\ calls = 0
  /\ InitAside

\* the inputs a strategy may be handed: those of the scene, and a press
\* edge with the held flag left at its default
StrategyInputs ==
  InputStates \cup {[jumpPressed |-> TRUE, jumpHeld |-> FALSE]}

\* mode.update(state, input, deltaTime, config) for the strategy `mode`
StrategyUpdate(mode) ==
  /\ ticks < MaxTicks
  /\ \E input \in StrategyInputs, deltaTime \in DeltaTimes :
       /\ player' = [player EXCEPT !.physicsState =
                       Mode_update(mode, player.physicsState, input,
                                   deltaTime, player.physicsConfig)]
       /\ lastOp' = [UpdateOp(input, deltaTime, Undefined)
                       EXCEPT !.name = "modeUpdate", !.arg = mode]
       /\ gameTime' = gameTime + deltaTime
  /\ events' = <<>>
  /\ ticks' = ticks + 1
  /\ UNCHANGED <<levelObjects, calls, aside>>

CubeUpdate ==
  /\ player.physicsState.mode = "cube"
  /\ StrategyUpdate("cube")

ShipUpdate ==
  /\ player.physicsState.mode = "ship"
  /\ StrategyUpdate("ship")

BallUpdate ==
  /\ player.physicsState.mode = "ball"
  /\ StrategyUpdate("ball")

NextModes ==
  \/ CubeUpdate
  \/ ShipUpdate
  \/ BallUpdate

SpecModes == InitModes /\ [][NextModes]_vars

(***************************************************************************)
(* Properties                                                              *)
(***************************************************************************)
\* the last operation was an update of a player that was alive
LiveUpdate == lastOp.name = "update" /\ ~lastOp.before.physicsState.isDead

\* the stages of that update
Stages ==
  Player_updateStages(lastOp.before, levelObjects, lastOp.input,
                      lastOp.deltaTime, lastOp.audioTime)

HasHazard(collisions) ==
  \E i \in 1..Len(collisions) : collisions[i].isHazard

\* the solid collisions that have a vertical push-out normal
VerticalSolids(collisions) ==
  {i \in 1..Len(collisions) :
     collisions[i].isSolid /\ collisions[i].collision.normal.y # 0}

HasSolid(collisions) ==
  \E i \in 1..Len(collisions) : collisions[i].isSolid

\* C1: in a tick where the hitbox overlaps a Hazard and a Solid, in whatever
\* list order, the player ends dead and position.y carries no push-out:
\* it is the y the mode update left.
C1_HazardOverSolid ==
  (LiveUpdate /\ HasHazard(Stages.collisions) /\ HasSolid(Stages.collisions))
    => /\ player.physicsState.isDead
       /\ Stages.afterCollisions.position.y = Stages.afterMode.position.y

\* C2: once isDead is true no PhysicsState field changes until reset() or
\* respawnAtCheckpoint() is called, whatever else is called in between.
C2_FrozenWhileDead ==
  [][(player.physicsState.isDead
        /\ lastOp'.name \notin {"reset", "respawnAtCheckpoint"})
       => player'.physicsState = player.physicsState]_vars

\* C3: update on a dead player changes no field and emits nothing, through
\* the tick driver and through each of the three strategies.
C3_UpdateWhileDeadIsNoOp ==
  /\ (lastOp.name = "update" /\ lastOp.before.physicsState.isDead)
       => (player = lastOp.before /\ events = <<>>)
  /\ player.physicsState.isDead
       => \A input \in InputStates, deltaTime \in DeltaTimes, mode \in Modes :
            /\ Mode_update(mode, player.physicsState, input, deltaTime,
                           PhysicsConfig) = player.physicsState
            /\ Player_update(player, levelObjects, input, deltaTime,
                             gameTime + deltaTime)
                 = [player |-> player, events |-> <<>>]

\* a dead player was handed to update, after it had moved and turned
C3_Witness ==
  /\ lastOp.name = "update"
  /\ lastOp.before.physicsState.isDead
  /\ lastOp.before.physicsState.position.x # startX
  /\ lastOp.audioTime > lastOp.deltaTime

\* C4: in the tick in which a Hazard kills the player nothing after the kill
\* is processed: isGrounded is not recomputed, no land or jump notification
\* is emitted, the coyote timer is not armed, and the ground constraint does
\* not alter position or velocity.
C4_KillHaltsTick ==
  (LiveUpdate /\ player.physicsState.isDead)
    => /\ player.physicsState.isGrounded = Stages.afterCollisions.isGrounded
       /\ events = <<"death">>
       /\ player.physicsState.coyoteTimeRemaining
            = Stages.afterCollisions.coyoteTimeRemaining
       /\ player.physicsState.position = Stages.afterCollisions.position
       /\ player.physicsState.velocity = Stages.afterCollisions.velocity

\* the displacement the push-out normals of the vertical solid collisions ask
\* for: the overlap magnitude along the normal, summed over the collisions
RECURSIVE PushAlongNormals(_, _)
PushAlongNormals(collisions, i) ==
  IF i > Len(collisions) THEN 0
  ELSE (IF i \in VerticalSolids(collisions)
        THEN Abs(collisions[i].collision.overlapY)
               * collisions[i].collision.normal.y
        ELSE 0)
       + PushAlongNormals(collisions, i + 1)

\* C5: every Solid overlap with a vertical normal moves position.y by the
\* overlap magnitude in the direction of the normal (up for normal.y = -1,
\* down for normal.y = +1).
C5_PushOutAlongNormal ==
  (LiveUpdate /\ ~HasHazard(Stages.collisions))
    => Stages.afterCollisions.position.y
         = Stages.afterMode.position.y + PushAlongNormals(Stages.collisions, 1)

\* C6: when a Solid overlap is resolved vertically, velocity.y becomes zero
\* exactly when its sign opposes the push direction, and is otherwise left
\* as the mode update set it.
C6_ZeroOnlyOpposingVelocity ==
  (LiveUpdate /\ ~HasHazard(Stages.collisions))
    => \A i \in VerticalSolids(Stages.collisions) :
         Cardinality(VerticalSolids(Stages.collisions)) = 1
           => LET v == Stages.afterMode.velocity.y
                  n == Stages.collisions[i].collision.normal.y
              IN  Stages.afterCollisions.velocity.y
                    = (IF v * n < 0 THEN 0 ELSE v)

\* terminal velocity of a mode, in velocity units
ModeTerminalVelocity(mode) ==
  IF mode = "ship"
  THEN (PhysicsConfig.terminalVelocity * VEL * SHIP_TERMINAL_PERCENT) \div 100
  ELSE PhysicsConfig.terminalVelocity * VEL

\* C7: after every tick |velocity.y| is at most the terminal velocity scaled
\* for the active mode (the mode the state names and the strategy in use).
C7_TerminalVelocityAfterTick ==
  (lastOp.name = "update" /\ player.currentMode = player.physicsState.mode)
    => Abs(player.physicsState.velocity.y)
         <= ModeTerminalVelocity(player.physicsState.mode)

\* C8 as claimed: after every update call of any mode rotation is at least
\* 0 and strictly less than 360 degrees.
C8_RotationNormalized ==
  lastOp.name = "modeUpdate"
    => /\ player.physicsState.rotation >= 0
       /\ player.physicsState.rotation < 360 * DEG

\* C8 as amended: after an update call of Ball mode, and of Cube mode while
\* airborne, rotation is in [0, 360); after one of Cube mode on the ground
\* it is a multiple of 90 in [0, 360]; after one of Ship mode it is a signed
\* tilt in [-30, 30].
C8_RotationRangeByMode ==
  lastOp.name = "modeUpdate"
    => LET state == player.physicsState
           r == state.rotation
       IN  /\ lastOp.arg = "ball" => (r >= 0 /\ r < 360 * DEG)
           /\ (lastOp.arg = "cube" /\ ~state.isGrounded)
                => (r >= 0 /\ r < 360 * DEG)
           /\ (lastOp.arg = "cube" /\ state.isGrounded)
                => (r >= 0 /\ r <= 360 * DEG /\ r % (90 * DEG) = 0)
           /\ lastOp.arg = "ship" => (r >= -(30 * DEG) /\ r <= 30 * DEG)

\* a rising ship has been updated and tilts below zero
C8_Witness ==
  /\ lastOp.name = "modeUpdate"
  /\ lastOp.arg = "ship"
  /\ ~lastOp.before.physicsState.isDead
  /\ player.physicsState.velocity.y < 0
  /\ player.physicsState.rotation < 0

\* a grounded cube has been updated and shows exactly 360 degrees
C8_CubeAt360 ==
  /\ lastOp.name = "modeUpdate"
  /\ lastOp.arg = "cube"
  /\ player.physicsState.isGrounded
  /\ player.physicsState.rotation = 360 * DEG

\* C9: after any mode switch state.mode is the new mode and the jump buffer
\* and the coyote timer are cleared.
C9_ModeSwitchClearsTimers ==
  (lastOp.name = "setMode" /\ events = <<"modeChange">>)
    => /\ player.physicsState.mode = lastOp.arg
       /\ ~player.physicsState.jumpBuffered
       /\ player.physicsState.jumpBufferTimeRemaining = 0
       /\ player.physicsState.coyoteTimeRemaining = 0

\* C10: every tick that takes the player from grounded to airborne with
\* upward velocity emits a jump notification.
C10_JumpNotification ==
  (/\ LiveUpdate
   /\ lastOp.before.physicsState.isGrounded
   /\ ~player.physicsState.isGrounded
   /\ player.physicsState.velocity.y < 0)
    => \E i \in 1..Len(events) : events[i] = "jump"

\* a notification of the given kind was emitted by the last operation
Emitted(kind) == \E i \in 1..Len(events) : events[i] = kind

\* C11: whenever a tick takes the player from grounded to airborne, by any
\* cause, coyoteTimeRemaining is the full configured coyoteTime when the
\* tick ends.
C11_CoyoteArmedOnLeavingGround ==
  (/\ LiveUpdate
   /\ lastOp.before.physicsState.isGrounded
   /\ ~player.physicsState.isGrounded)
    => player.physicsState.coyoteTimeRemaining = PhysicsConfig.coyoteTime

\* C12: a tick emits a land notification exactly when the player is airborne
\* at its start and grounded at its end.
C12_LandNotification ==
  lastOp.name = "update"
    => (Emitted("land")
          <=> (/\ ~lastOp.before.physicsState.isGrounded
               /\ player.physicsState.isGrounded))

\* C13: at the end of every tick, in every mode, a grounded player has
\* coyoteTimeRemaining = 0.
C13_CoyoteOnlyWhileAirborne ==
  (lastOp.name = "update" /\ player.physicsState.isGrounded)
    => player.physicsState.coyoteTimeRemaining = 0

\* the player overlaps a solid from below: it touches the solid's underside
TouchesUnderside(collisions) ==
  \E i \in VerticalSolids(collisions) : collisions[i].collision.normal.y = 1

\* C20: with gravity inverted, a live player pressed against the underside
\* of an active Solid is grounded when the tick ends.
C20_GroundedOnCeiling ==
  (/\ LiveUpdate
   /\ player.physicsState.gravityInverted
   /\ ~player.physicsState.isDead
   /\ TouchesUnderside(Stages.collisions))
    => player.physicsState.isGrounded


\* C14: in every reachable state and for every configuration, a set
\* jumpBuffered flag comes with a positive jumpBufferTimeRemaining
C14_BufferedImpliesTimeRemaining ==
  player.physicsState.jumpBuffered
    => player.physicsState.jumpBufferTimeRemaining > 0

(***************************************************************************)
(* Jump timing of the cube, at the level of CubeMode.update                *)
(***************************************************************************)
\* the last step was one update call of the strategy `mode` on a live player
LiveModeUpdate(mode) ==
  /\ lastOp.name = "modeUpdate"
  /\ lastOp.arg = mode
  /\ ~lastOp.before.physicsState.isDead

\* the jump impulse of the player's configuration, signed by the gravity
\* direction the update started with
SignedJumpForce ==
  IF lastOp.before.physicsState.gravityInverted
  THEN player.physicsConfig.jumpForce * VEL
  ELSE -(player.physicsConfig.jumpForce * VEL)

\* the vertical velocity the update leaves when gravity alone has acted
FallVelocity ==
  CubeMode_applyGravity(lastOp.before.physicsState, lastOp.deltaTime,
                        player.physicsConfig).velocity.y

\* the update started in the air with the coyote timer armed by an edge
\* fall and not yet used up by a jump; gameTime is the time since the fall
AfterEdgeFall ==
  /\ ~lastOp.before.physicsState.isGrounded
  /\ lastOp.before.physicsState.coyoteTimeRemaining # 0

\* C15: after an edge fall in Cube mode, a jump-press edge in an update
\* that ends within coyoteTime of the fall executes a jump at once
\* (velocity.y is the signed jump force); a press edge in a later update
\* does not jump and arms the jump buffer with the configured window
C15_CoyoteThenBuffer ==
  (LiveModeUpdate("cube") /\ AfterEdgeFall /\ lastOp.input.jumpPressed)
    => IF gameTime < player.physicsConfig.coyoteTime
       THEN /\ player.physicsState.velocity.y = SignedJumpForce
            /\ ~player.physicsState.jumpBuffered
       ELSE /\ player.physicsState.velocity.y = FallVelocity
            /\ player.physicsState.jumpBuffered
            /\ player.physicsState.jumpBufferTimeRemaining
                 = player.physicsConfig.jumpBuffer

\* a press edge arrived after the coyote window had run out and was buffered
C15_Witness ==
  /\ LiveModeUpdate("cube") /\ AfterEdgeFall /\ lastOp.input.jumpPressed
  /\ gameTime >= player.physicsConfig.coyoteTime
  /\ player.physicsState.jumpBuffered
  /\ player.physicsState.velocity.y # SignedJumpForce

\* a press edge arrived inside the coyote window and the cube jumped in the air
C15_JumpInsideWindow ==
  /\ LiveModeUpdate("cube") /\ AfterEdgeFall /\ lastOp.input.jumpPressed
  /\ gameTime < player.physicsConfig.coyoteTime
  /\ player.physicsState.velocity.y = SignedJumpForce

\* the update started with a jump buffered by an earlier press and received
\* neither a press edge nor a held button
PendingBuffer ==
  /\ lastOp.before.physicsState.jumpBuffered
  /\ lastOp.before.physicsState.jumpBufferTimeRemaining > 0
  /\ ~lastOp.input.jumpPressed
  /\ ~lastOp.input.jumpHeld

\* the part of the buffer window that is left when the update has run
BufferTimeLeft ==
  lastOp.before.physicsState.jumpBufferTimeRemaining - lastOp.deltaTime

C16_BufferExpired ==
  /\ LiveModeUpdate("cube") /\ PendingBuffer
  /\ BufferTimeLeft <= 0
  /\ ~player.physicsState.jumpBuffered
  /\ player.physicsState.velocity.y = FallVelocity

\* velocity.y is zero or points the way the current gravity pulls
AboutToFall(state) ==
  IF state.gravityInverted THEN state.velocity.y <= 0
  ELSE state.velocity.y >= 0

\* C17: in Cube mode, an update with jump held that starts grounded with
\* velocity.y on the about-to-fall side of zero for the current gravity
\* direction, normal or inverted, executes a jump: velocity.y becomes the
\* signed jump impulse
C17_AutoJumpWhileHeld ==
  (LiveModeUpdate("cube")
     /\ lastOp.input.jumpHeld
     /\ lastOp.before.physicsState.isGrounded
     /\ AboutToFall(lastOp.before.physicsState))
    => player.physicsState.velocity.y = SignedJumpForce

(***************************************************************************)
(* Gravity flips of the ball, at the level of BallMode.update              *)
(***************************************************************************)
\* the update changed the gravity direction
GravityFlipped ==
  player.physicsState.gravityInverted
    # lastOp.before.physicsState.gravityInverted

\* the update had a jump-press edge and started grounded
GroundedPress ==
  lastOp.input.jumpPressed /\ lastOp.before.physicsState.isGrounded

\* half the configured jump force, towards the side gravity pulls to once
\* the flag has the value `inverted`
FlipImpulse(inverted) ==
  IF inverted THEN -((player.physicsConfig.jumpForce * VEL) \div 2)
  ELSE (player.physicsConfig.jumpForce * VEL) \div 2

\* the vertical velocity after gravity alone has acted for the update
BallFallVelocity ==
  clamp(lastOp.before.physicsState.velocity.y
          + Accelerate(IF lastOp.before.physicsState.gravityInverted
                       THEN -player.physicsConfig.gravity
                       ELSE player.physicsConfig.gravity,
                       lastOp.deltaTime),
        -(player.physicsConfig.terminalVelocity * VEL),
        player.physicsConfig.terminalVelocity * VEL)

\* C18: in Ball mode gravityInverted changes during an update if and only
\* if the update has a jump-press edge and starts grounded; the flip sets
\* velocity.y to half the configured jump force in the new gravity
\* direction and clears isGrounded; a press while airborne leaves the
\* gravity direction alone and velocity.y is what gravity alone produces
C18_BallFlipOnGroundedPress ==
  LiveModeUpdate("ball")
    => /\ GravityFlipped <=> GroundedPress
       /\ GravityFlipped
            => /\ player.physicsState.velocity.y
                    = FlipImpulse(player.physicsState.gravityInverted)
               /\ ~player.physicsState.isGrounded
       /\ ~GroundedPress
            => /\ player.physicsState.velocity.y = BallFallVelocity
               /\ player.physicsState.isGrounded
                    = lastOp.before.physicsState.isGrounded

\* a grounded ball took a press edge and flipped its gravity
C18_Witness ==
  /\ LiveModeUpdate("ball") /\ GroundedPress
  /\ GravityFlipped
  /\ ~player.physicsState.isGrounded

\* a ball in flight took a press edge and kept its gravity direction
C18_AirbornePress ==
  /\ LiveModeUpdate("ball")
  /\ lastOp.input.jumpPressed /\ ~lastOp.before.physicsState.isGrounded
  /\ ~GravityFlipped
  /\ player.physicsState.velocity.y = BallFallVelocity

\* the state a second press edge produces when the ball, just flipped, is
\* found grounded again before its next update
SecondFlip(deltaTime) ==
  BallMode_update([player.physicsState EXCEPT !.isGrounded = TRUE],
                  [jumpPressed |-> TRUE, jumpHeld |-> TRUE], deltaTime,
                  player.physicsConfig)

\* C19: in Ball mode two consecutive grounded jump-press edges return
\* gravityInverted to its original value, and the impulse of the second
\* flip has the sign of the restored gravity direction
C19_TwoFlipsRestoreGravity ==
  (LiveModeUpdate("ball") /\ GroundedPress)
    => \A deltaTime \in DeltaTimes :
         /\ SecondFlip(deltaTime).gravityInverted
              = lastOp.before.physicsState.gravityInverted
         /\ IF lastOp.before.physicsState.gravityInverted
            THEN SecondFlip(deltaTime).velocity.y < 0
            ELSE SecondFlip(deltaTime).velocity.y > 0

\* a ball under normal gravity flipped, and a second grounded press edge
\* brings normal gravity back with a downward impulse
C19_Witness ==
  /\ LiveModeUpdate("ball") /\ GroundedPress
  /\ ~lastOp.before.physicsState.gravityInverted
  /\ player.physicsState.gravityInverted
  /\ \E deltaTime \in DeltaTimes :
       /\ ~SecondFlip(deltaTime).gravityInverted
       /\ SecondFlip(deltaTime).velocity.y > 0

(***************************************************************************)
(* Thrust of the ship, at the level of ShipMode.update                     *)
(***************************************************************************)
\* the acceleration of the ship in px/s^2: thrust against the gravity
\* direction while jump is held, 0.4 times gravity along it otherwise
ShipAcceleration ==
  IF lastOp.input.jumpHeld
  THEN IF lastOp.before.physicsState.gravityInverted
       THEN SHIP_THRUST_FORCE ELSE -SHIP_THRUST_FORCE
  ELSE IF lastOp.before.physicsState.gravityInverted
       THEN -((2 * player.physicsConfig.gravity) \div 5)
       ELSE (2 * player.physicsConfig.gravity) \div 5

\* the input of the update with the press edge toggled
TogglePress == [lastOp.input EXCEPT !.jumpPressed = ~@]

\* C21: in Ship mode an update with jump held changes velocity.y by thrust
\* alone, directed against the current gravity direction, and an update
\* with jump released changes it by 0.4 times gravity alone, in the gravity
\* direction (in both cases within the ship's terminal velocity); the
\* jump-press edge has no influence on the state the update produces
C21_ShipThrustOrGravity ==
  LiveModeUpdate("ship")
    => /\ player.physicsState.velocity.y
            = clamp(lastOp.before.physicsState.velocity.y
                      + (ShipAcceleration * lastOp.deltaTime * VEL) \div 100,
                    -ModeTerminalVelocity("ship"), ModeTerminalVelocity("ship"))
       /\ player.physicsState
            = ShipMode_update(lastOp.before.physicsState, TogglePress,
                              lastOp.deltaTime, player.physicsConfig)

\* a ship took a press edge without the button held and fell by its gravity
C21_Witness ==
  /\ LiveModeUpdate("ship")
  /\ lastOp.input.jumpPressed /\ ~lastOp.input.jumpHeld
  /\ ~lastOp.before.physicsState.gravityInverted
  /\ player.physicsState.velocity.y > lastOp.before.physicsState.velocity.y

\* a ship under normal gravity with the button held gained upward velocity
C21_Thrusting ==
  /\ LiveModeUpdate("ship")
  /\ lastOp.input.jumpHeld
  /\ ~lastOp.before.physicsState.gravityInverted
  /\ player.physicsState.velocity.y < lastOp.before.physicsState.velocity.y

(***************************************************************************)
(* Horizontal motion                                                       *)
(***************************************************************************)
\* start_x + t * speed for the music time of the update and the speed the
\* player runs at (Player.currentSpeed, set from the tier by setSpeed)
MusicX == startX + lastOp.audioTime * lastOp.before.currentSpeed

\* C22: after every tick of a live player supplied with music time t,
\* position.x equals start_x + t * (speed of the active speed tier); the
\* mode update, the collision resolution and the ground constraint leave
\* position.x as the music clock set it
C22_HorizontalFromMusicTime ==
  (LiveUpdate /\ lastOp.audioTime # Undefined)
    => /\ player.physicsState.position.x = MusicX
       /\ Stages.afterMode.position.x = MusicX
       /\ Stages.afterCollisions.position.x = MusicX
       /\ Stages.beforeConstraint.position.x = MusicX
       /\ Stages.final.position.x = MusicX

\* a tick at the fast tier that pushed the player out of a solid
C22_Witness ==
  /\ LiveUpdate /\ lastOp.audioTime # Undefined
  /\ lastOp.before.currentSpeed = SPEEDS["fast"]
  /\ HasSolid(Stages.collisions)
  /\ Stages.afterCollisions.position.y # Stages.afterMode.position.y
  /\ player.physicsState.position.x = MusicX

(***************************************************************************)
(* Determinism                                                             *)
(***************************************************************************)
\* a second, independent run: a new Player that has been reset
FreshRun == Player_reset(Player_new).player

\* the parts of the state a trajectory is made of
Trajectory(state) ==
  [position |-> state.position, velocity |-> state.velocity,
   rotation |-> state.rotation, gravityInverted |-> state.gravityInverted]

\* C24: for every initial state, input sequence, deltaTime sequence and
\* config, two independent runs produce identical position, velocity,
\* rotation and gravityInverted at every tick: whenever this run holds the
\* state a fresh run starts from, the same tick takes both to the same
\* position, velocity, rotation and gravity flag
C24_Determinism ==
  (player.physicsState = FreshRun.physicsState)
    => \A input \in InputStates, deltaTime \in DeltaTimes :
         Trajectory(Player_update(player, levelObjects, input, deltaTime,
                                  gameTime + deltaTime).player.physicsState)
           = Trajectory(Player_update(FreshRun, levelObjects, input,
                                      deltaTime, gameTime + deltaTime)
                          .player.physicsState)

(***************************************************************************)
(* The collision module called on its own: getAABBCollision on pairs of    *)
(* boxes, getHitboxScale and getCollisionLayer on object types             *)
(***************************************************************************)
\* corners and sizes are even, so that the centres are whole numbers
BoxCoords == {2 * c : c \in -MaxCoord..MaxCoord}

BoxSizes == {2, 4, 8}

Boxes ==
  { [x |-> x, y |-> y, width |-> width, height |-> height] :
      x \in BoxCoords, y \in BoxCoords,
      width \in BoxSizes, height \in BoxSizes }

\* the static boxes the moving box is tested against
StaticBoxes ==
  { [x |-> -2, y |-> -2, width |-> 4, height |-> 4],
    [x |-> -4, y |-> -1, width |-> 8, height |-> 2] }

\* the object types a level may contain
ObjectTypes ==
  {"block", "spike", "spikeInverted", "padYellow", "padPink", "orbYellow",
   "orbBlue", "portalGravity", "portalMode", "portalSpeed", "checkpoint",
   "decoration"}

InitCollision ==
  /\ player = Player_new
  /\ levelObjects = <<>>
  /\ gameTime = 0
  /\ events = <<>>
  /\ lastOp = CallOp("new", "")
  /\ ticks = 0
  /\ calls = 0
  /\ InitAside

\* getAABBCollision(a, b)
Collide ==
  /\ \E a \in Boxes, b \in StaticBoxes :
       probe' = [op |-> "getAABBCollision", a |-> a, b |-> b,
                 result |-> getAABBCollision(a, b)]
  /\ UNCHANGED <<player, levelObjects, gameTime, events, lastOp, ticks, calls,
               checkpointManager, history, scene, objectPool>>

\* getObjectHitbox and getCollisionLayer for an object of the type
Classify ==
  /\ \E type \in ObjectTypes :
       probe' = [op |-> "classify", type |-> type,
                 scale |-> getHitboxScale(type),
                 layer |-> getCollisionLayer(type)]
  /\ UNCHANGED <<player, levelObjects, gameTime, events, lastOp, ticks, calls,
               checkpointManager, history, scene, objectPool>>

NextCollision ==
  \/ Collide
  \/ Classify

SpecCollision == InitCollision /\ [][NextCollision]_vars

\* the distance box a has to move along x to stop overlapping box b
PenetrationX(a, b) == Min(a.x + a.width - b.x, b.x + b.width - a.x)

\* the same along y
PenetrationY(a, b) == Min(a.y + a.height - b.y, b.y + b.height - a.y)

\* C26: for any two overlapping boxes getAABBCollision reports colliding
\* with a normal that has exactly one nonzero component, of magnitude 1,
\* on the axis of smaller penetration, and a nonzero overlap on that axis
\* only; with equal penetration on both axes the vertical axis is chosen
C26_LeastPenetrationAxis ==
  (probe.op = "getAABBCollision" /\ checkAABBOverlap(probe.a, probe.b))
    => /\ probe.result.colliding
       /\ IF PenetrationX(probe.a, probe.b) < PenetrationY(probe.a, probe.b)
          THEN /\ probe.result.normal.x \in {-1, 1}
               /\ probe.result.normal.y = 0
               /\ Abs(probe.result.overlapX)
                    = PenetrationX(probe.a, probe.b)
               /\ probe.result.overlapY = 0
          ELSE /\ probe.result.normal.x = 0
               /\ probe.result.normal.y \in {-1, 1}
               /\ probe.result.overlapX = 0
               /\ Abs(probe.result.overlapY)
                    = PenetrationY(probe.a, probe.b)

\* two overlapping boxes with the same penetration on both axes were
\* resolved vertically
C26_Witness ==
  /\ probe.op = "getAABBCollision"
  /\ checkAABBOverlap(probe.a, probe.b)
  /\ PenetrationX(probe.a, probe.b) = PenetrationY(probe.a, probe.b)
  /\ probe.result.normal.y # 0

\* two overlapping boxes were resolved horizontally
C26_Horizontal ==
  /\ probe.op = "getAABBCollision"
  /\ checkAABBOverlap(probe.a, probe.b)
  /\ probe.result.normal.x # 0

\* C27: the hitbox scale of an obstacle is determined by its collision
\* category: 1.0 for every Solid kind, 0.5 for every Hazard kind and 0.75
\* for every Interactive kind, pads as well as orbs (scales in percent)
C27_HitboxScaleByCategory ==
  probe.op = "classify"
    => /\ probe.layer = LAYER_SOLID => probe.scale = 100
       /\ probe.layer = LAYER_HAZARD => probe.scale = 50
       /\ probe.layer = LAYER_INTERACTIVE => probe.scale = 75

(***************************************************************************)
(* The strategy behind the state                                           *)
(***************************************************************************)
\* C30: in every tick the strategy that updates the state is the one named
\* by state.mode, also on the first tick after reset() and after
\* respawnAtCheckpoint() when the mode active at death differs from the
\* mode being restored
C30_StrategyNamedByState ==
  LiveUpdate
    => /\ lastOp.before.currentMode = lastOp.before.physicsState.mode
       /\ Stages.afterMode
            = Mode_update(lastOp.before.physicsState.mode,
                          Player_syncX(lastOp.before, lastOp.audioTime),
                          lastOp.input, lastOp.deltaTime,
                          lastOp.before.physicsConfig)

(***************************************************************************)
(* The CheckpointManager on its own: every sequence of at most             *)
(* MaxManagerCalls calls of its public methods                             *)
(***************************************************************************)
\* physics states handed to recordCheckpoint
RecordedStates ==
  {Player_new.physicsState,
   [Player_new.physicsState EXCEPT !.mode = "ship", !.gravityInverted = TRUE]}

\* music times handed to recordCheckpoint
RecordedTimes == {150}

\* calls made to the manager in one run
MaxManagerCalls == 4

\* history after a call that resets the triggers
HistoryReset(manager) ==
  [before |-> manager, saved |-> {}, reached |-> [id \in CheckpointIds |-> 0]]

\* history after a call that leaves the triggers alone
HistoryKept(manager) == [history EXCEPT !.before = manager]

\* history after recordCheckpoint(id, ...) returned r
HistoryRecorded(manager, id, r) ==
  [before |-> manager,
   saved |-> IF r.result = Null THEN history.saved ELSE history.saved \cup {id},
   reached |-> [history.reached EXCEPT ![id] = @ + Len(r.events)]]

ManagerStep(name, arg, r) ==
  /\ calls < MaxManagerCalls
  /\ calls' = calls + 1
  /\ checkpointManager' = r.manager
  /\ events' = r.events
  /\ lastOp' = CallOp(name, arg)
  /\ UNCHANGED <<player, levelObjects, gameTime, ticks, probe, scene, objectPool>>

SetPracticeMode ==
  \E enabled \in BOOLEAN :
    /\ ManagerStep("setPracticeMode", enabled, CheckpointManager_setPracticeMode(checkpointManager, enabled))
    /\ history' = IF checkpointManager.isPracticeMode /\ ~enabled
                  THEN HistoryReset(checkpointManager)
                  ELSE HistoryKept(checkpointManager)

TogglePracticeMode ==
  /\ ManagerStep("togglePracticeMode", 0, CheckpointManager_togglePracticeMode(checkpointManager))
  /\ history' = IF checkpointManager.isPracticeMode
                THEN HistoryReset(checkpointManager)
                ELSE HistoryKept(checkpointManager)

RecordCheckpoint ==
  \E id \in CheckpointIds, physicsState \in RecordedStates, audioTime \in RecordedTimes :
    /\ ManagerStep("recordCheckpoint", id, CheckpointManager_recordCheckpoint(checkpointManager, id, physicsState, audioTime, id, 11, calls))
    /\ history' = HistoryRecorded(checkpointManager, id, CheckpointManager_recordCheckpoint(checkpointManager, id, physicsState, audioTime, id, 11, calls))

ResetTriggeredCheckpoints ==
  /\ ManagerStep("resetTriggeredCheckpoints", 0, [manager |-> CheckpointManager_resetTriggeredCheckpoints(checkpointManager), events |-> <<>>])
  /\ history' = HistoryReset(checkpointManager)

ClearAllCheckpoints ==
  /\ ManagerStep("clearAllCheckpoints", 0, [manager |-> CheckpointManager_clearAllCheckpoints(checkpointManager), events |-> <<>>])
  /\ history' = HistoryReset(checkpointManager)

\* GameScene.respawnAtCheckpoint announces the respawn it has carried out
NotifyRespawn ==
  /\ CheckpointManager_getRespawnState(checkpointManager) # Null
  /\ ManagerStep("notifyRespawn", 0, CheckpointManager_notifyRespawn(checkpointManager))
  /\ history' = HistoryKept(checkpointManager)

InitCheckpoints ==
  /\ player = Player_new
  /\ levelObjects = <<>>
  /\ gameTime = 0
  /\ events = <<>>
  /\ lastOp = CallOp("new", "")
  /\ ticks = 0
  /\ calls = 0
  /\ InitAside

NextCheckpoints ==
  \/ SetPracticeMode
  \/ TogglePracticeMode
  \/ RecordCheckpoint
  \/ ResetTriggeredCheckpoints
  \/ ClearAllCheckpoints
  \/ NotifyRespawn

SpecCheckpoints == InitCheckpoints /\ [][NextCheckpoints]_vars

\* C28: while practice mode is off nothing is saved (hasCheckpoint() is false
\* and getRespawnState() is null), so turning it off discards every saved
\* state; and only recordCheckpoint makes hasCheckpoint() true or
\* getRespawnState() non-null again, also once practice mode is back on.
C28_PracticeOffDiscards ==
  /\ ~checkpointManager.isPracticeMode =>
       /\ ~CheckpointManager_hasCheckpoint(checkpointManager)
       /\ CheckpointManager_getRespawnState(checkpointManager) = Null
  /\ (/\ ~CheckpointManager_hasCheckpoint(history.before)
      /\ \/ CheckpointManager_hasCheckpoint(checkpointManager)
         \/ CheckpointManager_getRespawnState(checkpointManager) # Null)
       => lastOp.name = "recordCheckpoint"

\* practice mode has just been turned off while a checkpoint was saved
C28_Witness ==
  /\ lastOp.name = "setPracticeMode"
  /\ lastOp.arg = FALSE
  /\ CheckpointManager_hasCheckpoint(history.before)
  /\ ~CheckpointManager_hasCheckpoint(checkpointManager)
  /\ checkpointManager.checkpointStates = <<>>

\* C29: between two resets of the triggers, checkpointReached has been
\* emitted once for every id a state was saved for, and never for any other
\* id.
C29_ReachedOncePerSavedId ==
  \A id \in CheckpointIds :
    history.reached[id] = IF id \in history.saved THEN 1 ELSE 0

(***************************************************************************)
(* The GameScene: frames, pointer events and delayed calls                 *)
(***************************************************************************)
\* frames in one run
MaxFrames == 3

\* pointer events in one run
MaxPointerEvents == 2

\* what the frame polls from the keyboard: the jump key (space or up) held
\* or not, and at most one of R held, ESC just pressed, P just pressed
KeyStates ==
  {[jump |-> jump, r |-> key = "r", escape |-> key = "escape", p |-> key = "p"] :
     jump \in BOOLEAN, key \in {"", "r", "escape", "p"}}

\* Levels around the start cell (the player's hitbox overlaps columns 2 and
\* 3 of row 11): two orbs side by side; a checkpoint, and in the next cell
\* an orb under a spike; a mode, a gravity and a speed portal; a pad.
SceneLevels ==
  { [objects |-> <<Collidable("orbYellow", LAYER_PORTAL, 2, 11),
                   Collidable("orbBlue", LAYER_PORTAL, 3, 11)>>,
     scene |-> GameScene_new(<<>>, <<>>, <<>>,
                 <<PooledJumper(2, 11, 850), PooledJumper(3, 11, 750)>>)],
    [objects |-> <<Collidable("checkpoint", LAYER_PORTAL, 2, 11), Spike(3, 10),
                   Collidable("orbYellow", LAYER_PORTAL, 3, 11)>>,
     scene |-> GameScene_new(<<>>, <<PooledCheckpoint(2, 11, 1)>>, <<>>,
                             <<PooledJumper(3, 11, 850)>>)],
    [objects |-> <<Collidable("portalMode", LAYER_PORTAL, 2, 11),
                   Collidable("portalGravity", LAYER_PORTAL, 3, 11),
                   Collidable("portalSpeed", LAYER_PORTAL, 3, 10)>>,
     scene |-> GameScene_new(<<PooledPortal(2, 11, "mode", "ship"),
                               PooledPortal(3, 11, "gravity", ""),
                               PooledPortal(3, 10, "speed", "fast")>>,
                             <<>>, <<>>, <<>>)],
    [objects |-> <<Collidable("padYellow", LAYER_SOLID, 3, 11)>>,
     scene |-> GameScene_new(<<>>, <<>>, <<PooledJumper(3, 11, 900)>>, <<>>)] }

\* no jump press is waiting for a player tick; the jump key, the pointer
\* and R are up; no checkpoint has been saved in this attempt
NoPresses ==
  [presses |-> 0, keyWasDown |-> FALSE, pointerIsDown |-> FALSE,
   rWasDown |-> FALSE, recorded |-> FALSE]

InitScene ==
  /\ \E level \in SceneLevels :
       /\ levelObjects = level.objects
       /\ scene = level.scene
  /\ player = Player_new
  /\ gameTime = 0
  /\ events = <<>>
  /\ lastOp = CallOp("new", "")
  /\ ticks = 0
  /\ calls = 0
  /\ probe = NoProbe
  /\ objectPool = ObjectPool_new(InitialBlocks)
  /\ checkpointManager = CheckpointManager_new
  /\ history = NoPresses

\* the world becomes w
SetWorld(w) ==
  /\ player' = w.player
  /\ checkpointManager' = w.manager
  /\ scene' = w.scene
  /\ gameTime' = w.gameTime
  /\ events' = w.events

\* jump presses made since the last player tick, the key press this frame
\* polls included
PressesAt(keys) ==
  history.presses + IF keys.jump /\ ~history.keyWasDown THEN 1 ELSE 0

\* a checkpoint state has been saved in the attempt the world w is in, given
\* what was so before the step that led to w
RecordedAfter(w) ==
  /\ w.scene.attempt = scene.attempt
  /\ w.manager.checkpointStates # <<>>
  /\ \/ history.recorded
     \/ w.manager.checkpointStates # checkpointManager.checkpointStates

\* the record of a frame: ticked says whether it reached player.update,
\* input is the InputState after the keyboard poll; paused, attempt,
\* rWasDown and recorded are taken before the frame
FrameOp(keys, deltaTime) ==
  [name |-> "frame", arg |-> "", before |-> player, keys |-> keys,
   deltaTime |-> deltaTime,
   ticked |-> Ticks(scene, keys),
   paused |-> scene.isPaused,
   attempt |-> scene.attempt,
   rWasDown |-> history.rWasDown,
   recorded |-> history.recorded,
   input |-> GameScene_pollJump(World(player, checkpointManager, scene, gameTime), keys).scene.inputState,
   presses |-> PressesAt(keys)]

Frame ==
  /\ ticks < MaxFrames
  /\ \E keys \in KeyStates, delta \in DeltaTimes :
       /\ SetWorld(GameScene_update(World(player, checkpointManager, scene, gameTime), levelObjects, keys, delta, ticks))
       /\ lastOp' = FrameOp(keys, delta)
       /\ history' = [history EXCEPT
                        !.presses = IF Ticks(scene, keys) THEN 0 ELSE PressesAt(keys),
                        !.keyWasDown = keys.jump,
                        !.rWasDown = keys.r,
                        !.recorded = RecordedAfter(GameScene_update(World(player, checkpointManager, scene, gameTime), levelObjects, keys, delta, ticks))]
  /\ ticks' = ticks + 1
  /\ UNCHANGED <<levelObjects, calls, probe, objectPool>>

PointerDown ==
  /\ calls < MaxPointerEvents
  /\ ~history.pointerIsDown
  /\ scene' = GameScene_pointerdown(scene)
  /\ history' = [history EXCEPT !.presses = @ + 1, !.pointerIsDown = TRUE]
  /\ lastOp' = CallOp("pointerdown", "")
  /\ events' = <<>>
  /\ calls' = calls + 1
  /\ UNCHANGED <<player, levelObjects, gameTime, ticks, probe, checkpointManager,
               objectPool>>

PointerUp ==
  /\ calls < MaxPointerEvents
  /\ history.pointerIsDown
  /\ scene' = GameScene_pointerup(scene)
  /\ history' = [history EXCEPT !.pointerIsDown = FALSE]
  /\ lastOp' = CallOp("pointerup", "")
  /\ events' = <<>>
  /\ calls' = calls + 1
  /\ UNCHANGED <<player, levelObjects, gameTime, ticks, probe, checkpointManager,
               objectPool>>

\* the timers without the i-th
Fired(sc, i) ==
  [sc EXCEPT !.timers = SubSeq(@, 1, i - 1) \o SubSeq(@, i + 1, Len(@))]

\* a delayed call scheduled by onPlayerDeath fires
DelayedCall ==
  /\ \E i \in DOMAIN scene.timers :
       /\ scene.timers[i].call # "levelSelect"
       /\ SetWorld(IF scene.timers[i].call = "restart"
                   THEN GameScene_restart(World(player, checkpointManager, Fired(scene, i), gameTime))
                   ELSE GameScene_respawnAtCheckpoint(World(player, checkpointManager, Fired(scene, i), gameTime), scene.timers[i].checkpoint))
       /\ lastOp' = [CallOp(scene.timers[i].call, "") EXCEPT !.before = player]
       /\ history' = [history EXCEPT !.recorded =
                        /\ scene.timers[i].call # "restart"
                        /\ history.recorded]
  /\ UNCHANGED <<levelObjects, ticks, calls, probe, objectPool>>

NextScene ==
  \/ Frame
  \/ PointerDown
  \/ PointerUp
  \/ DelayedCall

SpecScene == InitScene /\ [][NextScene]_vars

\* C25: the InputState a frame hands to player.update has jumpPressed true
\* exactly when a jump press (a press of the jump key or a pointer press)
\* was made since the previous player tick.
C25_PressedOneTickPerPress ==
  (lastOp.name = "frame" /\ lastOp.ticked) =>
    (lastOp.input.jumpPressed <=> lastOp.presses > 0)

\* C23: the notifications of one scene frame hold each of death, jump, land,
\* modeChange and gravityFlip at most once.
C23_OncePerFrame ==
  lastOp.name = "frame" =>
    \A kind \in {"death", "jump", "land", "modeChange", "gravityFlip"} :
      Cardinality({i \in DOMAIN events : events[i] = kind}) <= 1

\* C31: in every tick of a live player the speed that places position.x is
\* the speed of the tier recorded in state.speed: the player's speed field
\* agrees with the tier, and position.x is start_x + t * SPEEDS[state.speed].
C31_SpeedOfRecordedTier ==
  (LiveUpdate /\ lastOp.audioTime # Undefined)
    => /\ lastOp.before.currentSpeed = SPEEDS[lastOp.before.physicsState.speed]
       /\ player.physicsState.position.x =
            startX + lastOp.audioTime * SPEEDS[lastOp.before.physicsState.speed]

(***************************************************************************)
(* The tick driver in Cube mode: Player.update and nothing else            *)
(***************************************************************************)
\* ticks in one run
MaxJumpTicks == 3

\* the cube mode update up to the three places that may jump
CubeMode_beforeJumps(state, deltaTime, config) ==
  CubeMode_tickJumpBuffer(
    CubeMode_tickCoyote(CubeMode_applyGravity(state, deltaTime, config),
                        deltaTime),
    deltaTime)

\* executeJump ran at the jump-input stage, the auto-jump stage or the
\* buffered-jump stage, read off what each stage did to the state it was
\* handed
JumpStages(s, input, config) ==
  \/ /\ CubeMode_handleJumpInput(s, input, config) # s
     /\ CubeMode_handleJumpInput(s, input, config) = CubeMode_executeJump(s, config)
  \/ CubeMode_autoJump(CubeMode_handleJumpInput(s, input, config), input, config)
       # CubeMode_handleJumpInput(s, input, config)
  \/ CubeMode_bufferedJump(CubeMode_autoJump(CubeMode_handleJumpInput(s, input, config), input, config), config)
       # CubeMode_autoJump(CubeMode_handleJumpInput(s, input, config), input, config)

\* the update of a live cube executes a jump
JumpExecuted(pl, input, deltaTime, audioTime) ==
  /\ ~pl.physicsState.isDead
  /\ JumpStages(CubeMode_beforeJumps(Player_syncX(pl, audioTime), deltaTime, pl.physicsConfig), input, pl.physicsConfig)

\* a cube coming down from a jump, a few pixels above the ground, with or
\* without a press buffered on the way
DescendingStates ==
  { [createDefaultPhysicsState(startX, startY - 4 * PX, FALSE, "cube", "normal", FALSE)
       EXCEPT !.velocity.y = 2 * GRAVITY,
              !.angularVelocity = CUBE_ROTATION_SPEED,
              !.jumpBuffered = remaining > 0,
              !.jumpBufferTimeRemaining = remaining] :
      remaining \in {0, 1, JUMP_BUFFER} }

\* the starts of a run: the cube at rest at the start position, a cube that
\* has just run off an edge, and a cube coming down from a jump; inFlight
\* says that a jump has executed and the cube has not been grounded since
JumpStarts ==
  {[state |-> Player_new.physicsState, inFlight |-> FALSE]}
    \cup {[state |-> state, inFlight |-> FALSE] : state \in EdgeFallStates(PhysicsConfig)}
    \cup {[state |-> state, inFlight |-> TRUE] : state \in DescendingStates}

InitJumps ==
  /\ \E start \in JumpStarts :
       /\ player = [Player_new EXCEPT !.physicsState = start.state,
                                      !.wasGroundedLastFrame = start.state.isGrounded,
                                      !.wasInAir = ~start.state.isGrounded]
       /\ history = [inFlight |-> start.inFlight, wasInFlight |-> FALSE, jumped |-> FALSE]
  /\ levelObjects \in Levels
  /\ gameTime = 0
  /\ events = <<>>
  /\ lastOp = CallOp("new", "")
  /\ ticks = 0
  /\ calls = 0
  /\ probe = NoProbe
  /\ objectPool = ObjectPool_new(InitialBlocks)
  /\ checkpointManager = CheckpointManager_new
  /\ scene = NoScene

\* one call of Player.update by the tick driver
JumpTick ==
  /\ ticks < MaxJumpTicks
  /\ \E input \in InputStates, deltaTime \in DeltaTimes :
       /\ player' = Player_update(player, levelObjects, input, deltaTime, gameTime + deltaTime).player
       /\ events' = Player_update(player, levelObjects, input, deltaTime, gameTime + deltaTime).events
       /\ lastOp' = UpdateOp(input, deltaTime, gameTime + deltaTime)
       /\ gameTime' = gameTime + deltaTime
       /\ history' =
            [wasInFlight |-> history.inFlight,
             jumped |-> JumpExecuted(player, input, deltaTime, gameTime + deltaTime),
             inFlight |->
               /\ \/ history.inFlight
                  \/ JumpExecuted(player, input, deltaTime, gameTime + deltaTime)
               /\ ~Player_update(player, levelObjects, input, deltaTime, gameTime + deltaTime).player.physicsState.isGrounded]
  /\ ticks' = ticks + 1
  /\ UNCHANGED <<levelObjects, calls, probe, checkpointManager, scene, objectPool>>

NextJumps == JumpTick

SpecJumps == InitJumps /\ [][NextJumps]_vars

\* C32: a tick that starts with the cube in flight from a jump (a jump has
\* executed and no tick has ended grounded since) executes no jump, whatever
\* the input and the frame durations.
C32_NoMidAirSecondJump ==
  (lastOp.name = "update" /\ history.wasInFlight) => ~history.jumped

\* a press made in flight after a jump is buffered, not executed
C32_Witness ==
  /\ lastOp.name = "update"
  /\ history.wasInFlight
  /\ lastOp.input.jumpPressed
  /\ ticks >= 2
  /\ ~history.jumped
  /\ player.physicsState.jumpBuffered
  /\ ~player.physicsState.isGrounded

\* C33: a delayed restart or respawn fires only on the dead player whose
\* death scheduled it, never after the run has been restarted in between;
\* and a frame that finds R still held from the frame before leaves the
\* attempt counter alone.
C33_RestartOncePerRequest ==
  /\ lastOp.name \in {"restart", "respawnAtCheckpoint"}
       => lastOp.before.physicsState.isDead
  /\ (lastOp.name = "frame" /\ lastOp.keys.r /\ lastOp.rWasDown)
       => scene.attempt = lastOp.attempt

\* C34: a frame in which ESC is pressed while the scene is paused leaves
\* the scene running.
C34_EscapeResumes ==
  (lastOp.name = "frame" /\ lastOp.paused /\ lastOp.keys.escape)
    => ~scene.isPaused

\* C35: when the player dies in a frame that began with no checkpoint saved
\* in the current attempt, the delayed call the death schedules is the full
\* restart.
C35_DeathWithoutCheckpointRestarts ==
  (/\ lastOp.name = "frame"
   /\ lastOp.ticked
   /\ ~lastOp.recorded
   /\ \E i \in DOMAIN events : events[i] = "death")
    => /\ scene.timers # <<>>
       /\ scene.timers[Len(scene.timers)].call = "restart"

\* the pads, orbs and portals of the scene
Triggerables ==
  {scene.pads[i] : i \in DOMAIN scene.pads}
    \cup {scene.orbs[i] : i \in DOMAIN scene.orbs}
    \cup {[x |-> scene.portals[i].x, y |-> scene.portals[i].y, jumpForce |-> 0,
           triggered |-> scene.portals[i].triggered] : i \in DOMAIN scene.portals}

\* C36: right after a checkpoint respawn every pad, orb and portal ahead of
\* the respawned player is armed, as it is after a full restart.
C36_RespawnRearmsTriggers ==
  lastOp.name = "respawnAtCheckpoint" =>
    \A obj \in Triggerables :
      obj.x > player.physicsState.position.x => ~obj.triggered

(***************************************************************************)
(* The ObjectPool on its own: every sequence of at most MaxPoolCalls calls *)
(* of acquireBlock, releaseBlock and releaseAll                            *)
(***************************************************************************)
\* calls made to the pool in one run
MaxPoolCalls == 6

\* history.handed: the blocks acquireBlock has returned so far
InitPool ==
  /\ player = Player_new
  /\ levelObjects = <<>>
  /\ gameTime = 0
  /\ events = <<>>
  /\ lastOp = CallOp("new", "")
  /\ ticks = 0
  /\ calls = 0
  /\ probe = NoProbe
  /\ checkpointManager = CheckpointManager_new
  /\ scene = NoScene
  /\ objectPool = ObjectPool_new(InitialBlocks)
  /\ history = [handed |-> {}]

PoolStep(name, block, pool) ==
  /\ calls < MaxPoolCalls
  /\ calls' = calls + 1
  /\ objectPool' = pool
  /\ lastOp' = CallOp(name, block)
  /\ UNCHANGED <<player, levelObjects, gameTime, events, ticks, probe, checkpointManager, scene>>

AcquireBlock ==
  /\ PoolStep("acquireBlock", ObjectPool_acquireBlock(objectPool).block, ObjectPool_acquireBlock(objectPool).pool)
  /\ history' = [handed |-> history.handed \cup {ObjectPool_acquireBlock(objectPool).block}]

\* the caller releases a block it holds a reference to: any block it has
\* been handed, released before or not
ReleaseBlock ==
  /\ \E block \in history.handed :
       PoolStep("releaseBlock", block, ObjectPool_releaseBlock(objectPool, block))
  /\ UNCHANGED history

ReleaseAll ==
  /\ PoolStep("releaseAll", 0, ObjectPool_releaseAll(objectPool))
  /\ history' = history

NextPool ==
  \/ AcquireBlock
  \/ ReleaseBlock
  \/ ReleaseAll

SpecPool == InitPool /\ [][NextPool]_vars

\* the elements of a list are pairwise different
Distinct(seq) == \A i, j \in DOMAIN seq : seq[i] = seq[j] => i = j

\* C37: no block is in the active list and in the free pool at once, none is
\* twice in the free pool, and none is twice in the active list (so no
\* block has been handed out twice without a release in between).
C37_PoolListsDisjoint ==
  /\ Distinct(objectPool.blockPool)
  /\ Distinct(objectPool.activeBlocks)
  /\ \A i \in DOMAIN objectPool.blockPool, j \in DOMAIN objectPool.activeBlocks :
       objectPool.blockPool[i] # objectPool.activeBlocks[j]

=============================================================================
